---- MODULE Spec2Model ----
(***************************************************************************)
(* Model of the generative-output repair pipeline of server/ai/utils.ts:   *)
(* fixLatexBalance, escapeTextAmpersands, sanitizeLatexForExport,          *)
(* compileCitations, fixAIJsonEscaping, extractJson, sanitizeLatexOutput   *)
(* and applyPatches.                                                       *)
(*                                                                         *)
(* A text is a sequence of one-character strings.  Indices are 1-based:    *)
(* the model's cursor i is the source's i + 1, and "i > Len(s)" is the     *)
(* source's "i >= s.length".                                               *)
(***************************************************************************)
EXTENDS Integers, Sequences, FiniteSets, TLC

VARIABLES
    fn,         \* which exported function this run calls
    pc,         \* position inside that function
    input,      \* the argument text (latex / text)
    bal,        \* locals of fixLatexBalance: i, result, envStack, braceDepth, state
    amp,        \* locals of escapeTextAmpersands: i, result, envStack
    references, \* compileCitations: the keys of the reference list
    res,        \* compileCitations: the marker replace in progress (i, out)
    clean,      \* sanitizeLatexForExport: the text being sanitized
    compiled,   \* compileCitations: the text being compiled
    prev,       \* compileCitations: the text before the last merge pass
    loopCount,  \* compileCitations: merge passes done
    ret,        \* the returned text
    esc,        \* locals of fixAIJsonEscaping: i, result, inString, escape
    fixed,      \* extractJson: the candidate after fixAIJsonEscaping
    value,      \* extractJson: the value returned
    error,      \* extractJson: the error thrown
    patches,    \* applyPatches: the list of patches
    patchIdx,   \* applyPatches: position of the for-of loop in the list
    currentContent, \* applyPatches: the document being patched
    log,        \* applyPatches: the console lines written, one per patch
    calls,      \* calls in progress side by side: arguments, locals, result of each
    jsonEnd,    \* locals of findBalancedJsonEnd: i, depth, inString, escaped
    gen         \* locals of generateLatex: latex, the texts interpolated, the loop index

citeVars == <<references, res, compiled, prev, loopCount>>

\* the variables of fixAIJsonEscaping, extractJson, findBalancedJsonEnd and
\* applyPatches, and the calls that run side by side
extVars ==
    <<esc, fixed, value, error, patches, patchIdx, currentContent, log, calls, jsonEnd, gen>>

vars ==
    <<fn, pc, input, bal, amp, clean, references, res, compiled, prev, loopCount, ret,
      esc, fixed, value, error, patches, patchIdx, currentContent, log, calls,
      jsonEnd, gen>>

----------------------------------------------------------------------------
(* Bounds of the model *)

\* number of fragments an input of fixLatexBalance is assembled from
MaxFrags == 4

\* number of fragments an input of escapeTextAmpersands is assembled from
MaxAmpFrags == 3

\* number of fragments an input of compileCitations is assembled from
MaxCiteFrags == 3

\* number of fragments an input of sanitizeLatexForExport is assembled from
MaxExportFrags == 3

----------------------------------------------------------------------------
(* Text helpers: what String.prototype and the regular expressions do *)

BS == "\\"
NL == "\n"

\* \s of a JavaScript regular expression, over the model's alphabet
IsSpace(c) == c \in {" ", "\n", "\t"}

Last(s) == s[Len(s)]
Front(s) == SubSeq(s, 1, Len(s) - 1)

\* s.substring(i - 1).startsWith(p)
HasPrefixAt(s, i, p) ==
    /\ i >= 1
    /\ i + Len(p) - 1 <= Len(s)
    /\ SubSeq(s, i, i + Len(p) - 1) = p

Lower == {"a", "b", "c", "d", "e", "f", "g", "h", "i", "j", "k", "l", "m",
          "n", "o", "p", "q", "r", "s", "t", "u", "v", "w", "x", "y", "z"}
Upper == {"A", "B", "C", "D", "E", "F", "G", "H", "I", "J", "K", "L", "M",
          "N", "O", "P", "Q", "R", "S", "T", "U", "V", "W", "X", "Y", "Z"}
Digit == {"0", "1", "2", "3", "4", "5", "6", "7", "8", "9"}
Space == {" ", "\n", "\t"}

\* a character class repeated, [C]* from index j: the first index >= j whose
\* character is outside C (the index past the end of s if the run reaches it)
FirstNotIn(s, j, C) ==
    IF \E k \in j..Len(s) : s[k] \notin C
    THEN CHOOSE k \in j..Len(s) : s[k] \notin C /\ \A m \in j..(k - 1) : s[m] \in C
    ELSE IF j > Len(s) THEN j ELSE Len(s) + 1

\* a negated class repeated, [^C]* from index j: the first index >= j whose
\* character is in C (the index past the end of s if there is none)
FirstIn(s, j, C) ==
    IF \E k \in j..Len(s) : s[k] \in C
    THEN CHOOSE k \in j..Len(s) : s[k] \in C /\ \A m \in j..(k - 1) : s[m] \notin C
    ELSE IF j > Len(s) THEN j ELSE Len(s) + 1

\* \s* from index j: first index >= j of a character that is not white space
SkipSpace(s, j) == FirstNotIn(s, j, Space)

\* first index >= j at which s holds c (0 if none)
FindChar(s, j, c) ==
    LET k == FirstIn(s, j, {c}) IN IF k > Len(s) THEN 0 ELSE k

\* Array.prototype.lastIndexOf, 1-based (0 if absent)
RECURSIVE LastIndexOf(_, _)
LastIndexOf(stack, x) ==
    IF stack = <<>> THEN 0
    ELSE IF Last(stack) = x THEN Len(stack) ELSE LastIndexOf(Front(stack), x)

RECURSIVE Flatten(_)
Flatten(ss) ==
    IF ss = <<>> THEN <<>> ELSE Head(ss) \o Flatten(Tail(ss))

\* all sequences of at most n elements of S
SeqsUpTo(S, n) == UNION {[1..k -> S] : k \in 0..n}

BEGIN == <<BS, "b", "e", "g", "i", "n">>
END == <<BS, "e", "n", "d">>

NoMatch == [ok |-> FALSE, name |-> <<>>, len |-> 0]

\* substr.match(/^\\begin\s*\{([^}]+)\}/) and /^\\end\s*\{([^}]+)\}/ at index i:
\* the keyword kw, white space, '{', one or more characters that are not '}', '}'.
\* name is the capture group, len the length of the whole match.
MatchEnv(s, i, kw) ==
    IF ~HasPrefixAt(s, i, kw) THEN NoMatch
    ELSE LET j == SkipSpace(s, i + Len(kw))
         IN  IF j > Len(s) \/ s[j] # "{" THEN NoMatch
             ELSE LET k == FindChar(s, j + 1, "}")
                  IN  IF k = 0 \/ k = j + 1 THEN NoMatch
                      ELSE [ok |-> TRUE,
                            name |-> SubSeq(s, j + 1, k - 1),
                            len |-> k - i + 1]

----------------------------------------------------------------------------
(* fixLatexBalance *)

\* result += "}" once per unit of n
Closers(n) == [k \in 1..n |-> "}"]

\* the template literal \end{unclosed}
EndTag(unclosed) == END \o <<"{">> \o unclosed \o <<"}">>

BalInit ==
    [i |-> 1, result |-> <<>>, envStack |-> <<>>, braceDepth |-> 0,
     state |-> "NORMAL"]

\* while (braceDepth > 0) { result += "}"; braceDepth--; }
FlushBraces(st) ==
    [st EXCEPT !.result = @ \o Closers(st.braceDepth), !.braceDepth = 0]

\* PopAll with the frames emitted outermost first
RECURSIVE PopAllOutermostFirst(_)
PopAllOutermostFirst(st) ==
    IF st.envStack = <<>> THEN st
    ELSE PopAllOutermostFirst(
            [st EXCEPT !.result = @ \o <<BS, "e", "n", "d", "{">>
                                   \o Head(st.envStack) \o <<"}">>,
                       !.envStack = Tail(@)])

\* while (envStack.length > 0) { unclosed = envStack.pop(); result += \end{unclosed} }
RECURSIVE PopAll(_)
PopAll(st) ==
    IF st.envStack = <<>> THEN st
    ELSE PopAll([st EXCEPT !.result = @ \o EndTag(Last(st.envStack)),
                           !.envStack = Front(@)])

\* the frames above stackIndex closed from the lowest one up
CloseIntermediateBottomUp(st, stackIndex) ==
    [st EXCEPT !.result = @ \o Flatten([j \in 1..(Len(st.envStack) - stackIndex) |->
                                           EndTag(st.envStack[stackIndex + j])]),
               !.envStack = SubSeq(@, 1, stackIndex)]

\* while (envStack.length - 1 > stackIndex) { pop; result += \end{unclosed} }
\* (stackIndex here is 1-based: the frames above it have index > stackIndex)
RECURSIVE CloseIntermediate(_, _)
CloseIntermediate(st, stackIndex) ==
    IF Len(st.envStack) <= stackIndex THEN st
    ELSE CloseIntermediate(
            [st EXCEPT !.result = @ \o EndTag(Last(st.envStack)),
                       !.envStack = Front(@)], stackIndex)

\* the \begin branch
BalOnBegin(st, m, fullTag) ==
    [st EXCEPT !.envStack = Append(@, m.name),
               !.result = @ \o fullTag,
               !.i = @ + m.len,
               !.state = "NORMAL"]

\* the \end branch with the braces closed on every marker, an orphan included
BalOnEndFlushAlways(st, m, fullTag) ==
    LET envName == m.name
        stackIndex == LastIndexOf(st.envStack, envName)
        f == FlushBraces(st)
        closed ==
            IF stackIndex # 0
            THEN LET c == CloseIntermediate(f, stackIndex)
                 IN  [c EXCEPT !.envStack = Front(@), !.result = @ \o fullTag]
            ELSE [f EXCEPT !.result = @ \o fullTag]
    IN  [closed EXCEPT !.i = @ + m.len, !.state = "NORMAL"]

\* an end marker with no open environment of its name left out of the result
BalOnEndDropOrphan(st, m, fullTag) ==
    LET envName == m.name
        stackIndex == LastIndexOf(st.envStack, envName)
        closed ==
            IF Len(st.envStack) > 0
            THEN IF Last(st.envStack) = envName
                 THEN LET f == FlushBraces(st)
                      IN  [f EXCEPT !.envStack = Front(@),
                                    !.result = @ \o fullTag]
                 ELSE IF stackIndex # 0
                      THEN LET c == CloseIntermediate(FlushBraces(st), stackIndex)
                           IN  [c EXCEPT !.envStack = Front(@),
                                         !.result = @ \o fullTag]
                      ELSE st
            ELSE st
    IN  [closed EXCEPT !.i = @ + m.len, !.state = "NORMAL"]

\* the \end branch: mismatch detection and fix
BalOnEnd(st, m, fullTag) ==
    LET envName == m.name
        stackIndex == LastIndexOf(st.envStack, envName)
        closed ==
            IF Len(st.envStack) > 0
            THEN IF Last(st.envStack) = envName
                 THEN LET f == FlushBraces(st)
                      IN  [f EXCEPT !.envStack = Front(@),
                                    !.result = @ \o fullTag]
                 ELSE IF stackIndex # 0
                      THEN LET c == CloseIntermediate(FlushBraces(st), stackIndex)
                           IN  [c EXCEPT !.envStack = Front(@),
                                         !.result = @ \o fullTag]
                      ELSE [st EXCEPT !.result = @ \o fullTag]
            ELSE [st EXCEPT !.result = @ \o fullTag]
    IN  [closed EXCEPT !.i = @ + m.len, !.state = "NORMAL"]

\* the depth moved with no floor
BraceCharNoFloor(depth, char) ==
    IF char = "{" THEN depth + 1
    ELSE IF char = "}" THEN depth - 1
    ELSE depth

\* structural characters: '{' and '}' move the depth, floored at zero
BraceChar(depth, char) ==
    IF char = "{" THEN depth + 1
    ELSE IF char = "}" THEN (IF depth > 0 THEN depth - 1 ELSE depth)
    ELSE depth

\* an iteration that counts the brace behind a backslash
BalIterEscapeCounted(latex, st) ==
    LET char == latex[st.i]
        copy == [st EXCEPT !.result = Append(@, char), !.i = @ + 1]
    IN  IF st.state = "ESCAPE"
        THEN [copy EXCEPT !.state = "NORMAL", !.braceDepth = BraceChar(@, char)]
        ELSE IF st.state = "COMMENT"
        THEN [copy EXCEPT !.state = IF char = NL THEN "NORMAL" ELSE "COMMENT"]
        ELSE IF char = BS
        THEN LET beginMatch == MatchEnv(latex, st.i, BEGIN)
                 endMatch == MatchEnv(latex, st.i, END)
             IN  IF beginMatch.ok
                 THEN BalOnBegin(st, beginMatch,
                                 SubSeq(latex, st.i, st.i + beginMatch.len - 1))
                 ELSE IF endMatch.ok
                 THEN BalOnEnd(st, endMatch,
                               SubSeq(latex, st.i, st.i + endMatch.len - 1))
                 ELSE [copy EXCEPT !.state = "ESCAPE"]
        ELSE IF char = "%" THEN [copy EXCEPT !.state = "COMMENT"]
        ELSE [copy EXCEPT !.braceDepth = BraceChar(@, char)]

\* one iteration of the while loop
BalIter(latex, st) ==
    LET char == latex[st.i]
        copy == [st EXCEPT !.result = Append(@, char), !.i = @ + 1]
    IN  IF st.state = "ESCAPE" THEN [copy EXCEPT !.state = "NORMAL"]
        ELSE IF st.state = "COMMENT"
        THEN [copy EXCEPT !.state = IF char = NL THEN "NORMAL" ELSE "COMMENT"]
        ELSE IF char = BS
        THEN LET beginMatch == MatchEnv(latex, st.i, BEGIN)
                 endMatch == MatchEnv(latex, st.i, END)
             IN  IF beginMatch.ok
                 THEN BalOnBegin(st, beginMatch,
                                 SubSeq(latex, st.i, st.i + beginMatch.len - 1))
                 ELSE IF endMatch.ok
                 THEN BalOnEnd(st, endMatch,
                               SubSeq(latex, st.i, st.i + endMatch.len - 1))
                 ELSE [copy EXCEPT !.state = "ESCAPE"]
        ELSE IF char = "%" THEN [copy EXCEPT !.state = "COMMENT"]
        ELSE [copy EXCEPT !.braceDepth = BraceChar(@, char)]

\* FINAL CLEANUP: close the braces, then every open environment
FinalCleanup(st) == PopAll(FlushBraces(st))

\* n iterations of the while loop, none once the text is exhausted; the
\* first half of them is run before the second half is entered
RECURSIVE BalSteps(_, _, _)
BalSteps(latex, st, n) ==
    IF n = 0 THEN st
    ELSE IF n = 1 THEN (IF st.i > Len(latex) THEN st ELSE BalIter(latex, st))
    ELSE LET half == BalSteps(latex, st, n \div 2)
         IN  IF half.i > Len(latex) THEN half
             ELSE BalSteps(latex, half, n - (n \div 2))

\* the scan loop run to the end of the text: every iteration consumes a
\* character at least, so Len(latex) iterations exhaust it
BalRun(latex, st) == BalSteps(latex, st, Len(latex))

fixLatexBalance(latex) == FinalCleanup(BalRun(latex, BalInit)).result

----------------------------------------------------------------------------
(* escapeTextAmpersands *)

\* environments where & is structural
structuralEnvs ==
    { <<"t", "a", "b", "u", "l", "a", "r">>,
      <<"t", "a", "b", "u", "l", "a", "r", "*">>,
      <<"t", "a", "b", "u", "l", "a", "r", "x">>,
      <<"l", "o", "n", "g", "t", "a", "b", "l", "e">>,
      <<"a", "l", "i", "g", "n">>,
      <<"a", "l", "i", "g", "n", "*">>,
      <<"a", "l", "i", "g", "n", "a", "t">>,
      <<"s", "p", "l", "i", "t">>,
      <<"c", "a", "s", "e", "s">>,
      <<"a", "r", "r", "a", "y">>,
      <<"m", "a", "t", "r", "i", "x">>,
      <<"b", "m", "a", "t", "r", "i", "x">>,
      <<"p", "m", "a", "t", "r", "i", "x">>,
      <<"v", "m", "a", "t", "r", "i", "x">>,
      <<"V", "m", "a", "t", "r", "i", "x">> }

\* commands whose arguments are verbatim
verbatimCmds ==
    { <<"u", "r", "l">>, <<"h", "r", "e", "f">>, <<"c", "o", "d", "e">>,
      <<"v", "e", "r", "b">> }

DOCUMENT ==
    <<BS, "b", "e", "g", "i", "n", "{", "d", "o", "c", "u", "m", "e", "n", "t", "}">>

\* s.indexOf(p), 1-based, searched from index j (0 if absent); p is not empty
IndexOfFrom(s, p, j) ==
    LET at(k) == s[k] = p[1] /\ SubSeq(s, k, k + Len(p) - 1) = p
        hi == Len(s) - Len(p) + 1
    IN  IF \E k \in j..hi : at(k)
        THEN CHOOSE k \in j..hi : at(k) /\ \A m \in j..(k - 1) : ~at(m)
        ELSE 0

IndexOf(s, p) == IndexOfFrom(s, p, 1)

\* name.replace(/\*/, ''): the first '*' removed
StripFirstStar(name) ==
    LET k == FindChar(name, 1, "*")
    IN  IF k = 0 THEN name
        ELSE SubSeq(name, 1, k - 1) \o SubSeq(name, k + 1, Len(name))

\* name.replace(/\*$/, ''): a trailing '*' removed
StripTrailingStar(name) ==
    IF name # <<>> /\ Last(name) = "*" THEN Front(name) ELSE name

\* a "document start" that is never found: the whole text is the body
AmpDocStartNone(latex) == 0

\* latex.indexOf('\\begin{document}'), 1-based (0 for the source's -1)
AmpDocStart(latex) == IndexOf(latex, DOCUMENT)

AmpPreamble(latex) ==
    IF AmpDocStart(latex) # 0 THEN SubSeq(latex, 1, AmpDocStart(latex) - 1)
    ELSE <<>>

AmpBody(latex) ==
    IF AmpDocStart(latex) # 0 THEN SubSeq(latex, AmpDocStart(latex), Len(latex))
    ELSE latex

AmpInit == [i |-> 1, result |-> <<>>, envStack |-> <<>>]

\* end of the run of [a-zA-Z@] that starts at j: substr.match(/^\\([a-zA-Z@]+)/)
CmdNameEnd(s, j) == FirstNotIn(s, j, Lower \cup Upper \cup {"@"})

\* the nesting depth after the characters s[j..k], entered with depth
DepthAfter(s, j, k, depth, open, close) ==
    depth + Cardinality({m \in j..k : s[m] = open})
          - Cardinality({m \in j..k : s[m] = close})

\* an argument that is not closed is given up where it starts
SkipDelimitedGiveUp(s, j, depth, open, close) ==
    IF j > Len(s) \/ depth <= 0 THEN j
    ELSE IF \E k \in j..Len(s) : DepthAfter(s, j, k, depth, open, close) <= 0
    THEN 1 + CHOOSE k \in j..Len(s) :
                /\ DepthAfter(s, j, k, depth, open, close) <= 0
                /\ \A m \in j..(k - 1) : DepthAfter(s, j, m, depth, open, close) > 0
    ELSE j

\* while (i < body.length && depth > 0) { count open/close; copy; i++ }
\* returns the index at which the loop stops: past the character that brings
\* the depth to zero, or past the end of the text
SkipDelimited(s, j, depth, open, close) ==
    IF j > Len(s) \/ depth <= 0 THEN j
    ELSE IF \E k \in j..Len(s) : DepthAfter(s, j, k, depth, open, close) <= 0
    THEN 1 + CHOOSE k \in j..Len(s) :
                /\ DepthAfter(s, j, k, depth, open, close) <= 0
                /\ \A m \in j..(k - 1) : DepthAfter(s, j, m, depth, open, close) > 0
    ELSE Len(s) + 1

\* a verbatim command whose argument is not closed before the end of the text
\* leaves the cursor where it is
AmpVerbatimStuck(body, st, e) ==
    LET a == IF e <= Len(body) /\ body[e] = "["
             THEN SkipDelimited(body, e + 1, 1, "[", "]") ELSE e
        b == IF a <= Len(body) /\ body[a] = "{"
             THEN SkipDelimited(body, a + 1, 1, "{", "}") ELSE a
    IN  IF b > Len(body) THEN st
        ELSE [st EXCEPT !.result = @ \o SubSeq(body, st.i, b - 1), !.i = b]

\* a verbatim command at st.i whose name ends before index e: the command, an
\* optional [..] argument and a mandatory {..} argument are copied unexamined
AmpVerbatim(body, st, e) ==
    LET a == IF e <= Len(body) /\ body[e] = "["
             THEN SkipDelimited(body, e + 1, 1, "[", "]") ELSE e
        b == IF a <= Len(body) /\ body[a] = "{"
             THEN SkipDelimited(body, a + 1, 1, "{", "}") ELSE a
    IN  [st EXCEPT !.result = @ \o SubSeq(body, st.i, b - 1), !.i = b]

\* the \begin branch
AmpOnBegin(st, m, fullTag) ==
    [st EXCEPT !.envStack = Append(@, m.name),
               !.result = @ \o fullTag,
               !.i = @ + m.len]

\* the pop condition of the \end branch
AmpPops(envStack, envName) ==
    /\ Len(envStack) > 0
    /\ \/ Last(envStack) = envName
       \/ StripFirstStar(Last(envStack)) = StripFirstStar(envName)
       \/ Last(envStack) \in structuralEnvs

\* the \end branch
AmpOnEnd(st, m, fullTag) ==
    [st EXCEPT !.envStack = IF AmpPops(st.envStack, m.name) THEN Front(@) ELSE @,
               !.result = @ \o fullTag,
               !.i = @ + m.len]

\* the top frame alone decides
IsStructuralTopOnly(envStack) ==
    envStack # <<>> /\ StripTrailingStar(Last(envStack)) \in structuralEnvs

\* for (j = envStack.length - 1; j >= 0; j--) if structuralEnvs.has(env) ...
RECURSIVE IsStructural(_)
IsStructural(envStack) ==
    IF envStack = <<>> THEN FALSE
    ELSE IF StripTrailingStar(Last(envStack)) \in structuralEnvs THEN TRUE
    ELSE IsStructural(Front(envStack))

\* first index >= j of a newline (Len(s) + 1 if none)
LineEnd(s, j) == FirstIn(s, j, {NL})

\* a pass that copies the backslash of an escape and not the character behind it
AmpIterBackslashAlone(body, st) ==
    LET char == body[st.i]
    IN  IF char = BS
        THEN LET e == CmdNameEnd(body, st.i + 1)
                 cmdName == SubSeq(body, st.i + 1, e - 1)
                 beginMatch == MatchEnv(body, st.i, BEGIN)
                 endMatch == MatchEnv(body, st.i, END)
             IN  IF cmdName # <<>> /\ cmdName \in verbatimCmds
                 THEN AmpVerbatim(body, st, e)
                 ELSE IF beginMatch.ok
                 THEN AmpOnBegin(st, beginMatch,
                                 SubSeq(body, st.i, st.i + beginMatch.len - 1))
                 ELSE IF endMatch.ok
                 THEN AmpOnEnd(st, endMatch,
                               SubSeq(body, st.i, st.i + endMatch.len - 1))
                 ELSE [st EXCEPT !.result = Append(@, char), !.i = @ + 1]
        ELSE IF char = "%"
        THEN LET e == LineEnd(body, st.i + 1)
             IN  [st EXCEPT !.result = @ \o SubSeq(body, st.i, e - 1), !.i = e]
        ELSE IF char = "&"
        THEN [st EXCEPT !.result = @ \o (IF IsStructural(st.envStack)
                                         THEN <<"&">> ELSE <<BS, "&">>),
                        !.i = @ + 1]
        ELSE [st EXCEPT !.result = Append(@, char), !.i = @ + 1]

\* one iteration of the while loop over the body
AmpIter(body, st) ==
    LET char == body[st.i]
    IN  IF char = BS
        THEN LET e == CmdNameEnd(body, st.i + 1)
                 cmdName == SubSeq(body, st.i + 1, e - 1)
                 beginMatch == MatchEnv(body, st.i, BEGIN)
                 endMatch == MatchEnv(body, st.i, END)
             IN  IF cmdName # <<>> /\ cmdName \in verbatimCmds
                 THEN AmpVerbatim(body, st, e)
                 ELSE IF beginMatch.ok
                 THEN AmpOnBegin(st, beginMatch,
                                 SubSeq(body, st.i, st.i + beginMatch.len - 1))
                 ELSE IF endMatch.ok
                 THEN AmpOnEnd(st, endMatch,
                               SubSeq(body, st.i, st.i + endMatch.len - 1))
                 ELSE IF st.i + 1 <= Len(body)
                 THEN [st EXCEPT !.result = @ \o <<char, body[st.i + 1]>>,
                                 !.i = @ + 2]
                 ELSE [st EXCEPT !.result = Append(@, char), !.i = @ + 1]
        ELSE IF char = "%"
        THEN LET e == LineEnd(body, st.i + 1)
             IN  [st EXCEPT !.result = @ \o SubSeq(body, st.i, e - 1), !.i = e]
        ELSE IF char = "&"
        THEN [st EXCEPT !.result = @ \o (IF IsStructural(st.envStack)
                                         THEN <<"&">> ELSE <<BS, "&">>),
                        !.i = @ + 1]
        ELSE [st EXCEPT !.result = Append(@, char), !.i = @ + 1]

\* n iterations of the while loop, none once the body is exhausted
RECURSIVE AmpSteps(_, _, _)
AmpSteps(body, st, n) ==
    IF n = 0 THEN st
    ELSE IF n = 1 THEN (IF st.i > Len(body) THEN st ELSE AmpIter(body, st))
    ELSE LET half == AmpSteps(body, st, n \div 2)
         IN  IF half.i > Len(body) THEN half
             ELSE AmpSteps(body, half, n - (n \div 2))

\* the loop run to the end of the body
AmpRun(body, st) == AmpSteps(body, st, Len(body))

escapeTextAmpersands(latex) ==
    AmpPreamble(latex) \o AmpRun(AmpBody(latex), AmpInit).result

----------------------------------------------------------------------------
(* String.prototype.replace with a global pattern *)

\* no match at an index
NoRep == [len |-> 0, rep |-> <<>>]

\* one step of s.replace(/pattern/g, replacement): at[i] tells the length of
\* the pattern's match at index i (0 if it does not match there) and what the
\* match becomes.  A match is replaced and the scan goes on behind it; any
\* other character is copied.
ReplaceIter(s, at, st) ==
    IF st.i > Len(s) THEN st
    ELSE LET m == at[st.i]
         IN  IF m.len > 0 THEN [i |-> st.i + m.len, out |-> st.out \o m.rep]
             ELSE [i |-> st.i + 1, out |-> Append(st.out, s[st.i])]

\* n steps of the scan
RECURSIVE ReplaceRun(_, _, _, _)
ReplaceRun(s, at, st, n) ==
    IF n = 0 THEN st
    ELSE IF n = 1 THEN ReplaceIter(s, at, st)
    ELSE LET half == ReplaceRun(s, at, st, n \div 2)
         IN  IF half.i > Len(s) THEN half
             ELSE ReplaceRun(s, at, half, n - (n \div 2))

\* the whole replace: every step consumes a character at least
ReplaceAll(s, at) == ReplaceRun(s, at, [i |-> 1, out |-> <<>>], Len(s)).out

----------------------------------------------------------------------------
(* compileCitations *)

\* the merge loop's safety break: loopCount < 10
MaxMergeLoops == 10

CITE == <<BS, "c", "i", "t", "e", "{">>
GLYPH == <<"[", "?", "]">>

\* the compiler's variables while another function runs
CiteIdle ==
    /\ references = {}
    /\ res = [i |-> 1, out |-> <<>>]
    /\ compiled = <<>>
    /\ prev = <<>>
    /\ loopCount = 0

\* String.prototype.toLowerCase on the letters the /i patterns name
ToLower(c) ==
    LET lowerCase == [A |-> "a", B |-> "b", C |-> "c", D |-> "d", E |-> "e",
                       F |-> "f", G |-> "g", H |-> "h", I |-> "i", J |-> "j",
                       K |-> "k", L |-> "l", M |-> "m", N |-> "n", O |-> "o",
                       P |-> "p", Q |-> "q", R |-> "r", S |-> "s", T |-> "t",
                       U |-> "u", V |-> "v", W |-> "w", X |-> "x", Y |-> "y",
                       Z |-> "z"]
    IN  IF c \in Upper THEN lowerCase[c] ELSE c

\* p matched at index i ignoring case (p is lower case)
HasPrefixAtNoCase(s, i, p) ==
    /\ i >= 1
    /\ i + Len(p) - 1 <= Len(s)
    /\ \A k \in 1..Len(p) : ToLower(s[i + k - 1]) = p[k]

EscBackslash(c) ==
    IF c = BS THEN <<BS, "t", "e", "x", "t", "b", "a", "c", "k", "s", "l", "a",
                     "s", "h", "{", "}">>
    ELSE <<c>>
EscBrace(c) == IF c \in {"{", "}"} THEN <<BS, c>> ELSE <<c>>
EscSpecial(c) == IF c \in {"%", "$", "#", "&", "_"} THEN <<BS, c>> ELSE <<c>>
EscTilde(c) ==
    IF c = "~" THEN <<BS, "t", "e", "x", "t", "a", "s", "c", "i", "i", "t", "i",
                      "l", "d", "e", "{", "}">>
    ELSE <<c>>
EscCircum(c) ==
    IF c = "^" THEN <<BS, "t", "e", "x", "t", "a", "s", "c", "i", "i", "c", "i",
                      "r", "c", "u", "m", "{", "}">>
    ELSE <<c>>

\* the five chained replace calls, each a per-character replacement
escapeLatex(text) ==
    LET t1 == Flatten([k \in 1..Len(text) |-> EscBackslash(text[k])])
        t2 == Flatten([k \in 1..Len(t1) |-> EscBrace(t1[k])])
        t3 == Flatten([k \in 1..Len(t2) |-> EscSpecial(t2[k])])
        t4 == Flatten([k \in 1..Len(t3) |-> EscTilde(t3[k])])
    IN  Flatten([k \in 1..Len(t4) |-> EscCircum(t4[k])])

IsWordChar(c) == c \in Lower \cup Upper \cup Digit \cup {"_"}

\* [a-zA-Z0-9_,;\s]
MarkerChars == Lower \cup Upper \cup Digit \cup {"_", ",", ";"} \cup Space

\* [,\s;]
IsSeparator(c) == c \in {",", ";"} \/ IsSpace(c)

\* end of the run of marker characters that starts at j
MarkerRunEnd(s, j) == FirstNotIn(s, j, MarkerChars)

\* index of the last character of s[lo..hi] that is not white space (lo - 1 if none)
LastNonSpace(s, lo, hi) ==
    IF \E k \in lo..hi : s[k] \notin Space
    THEN CHOOSE k \in lo..hi : s[k] \notin Space /\ \A m \in (k + 1)..hi : s[m] \in Space
    ELSE lo - 1

\* /\(\s*(ref_[a-zA-Z0-9_,;\s]+?)\s*\)/i at index i.  The class holds white
\* space and no ')', so the pattern matches exactly when the run of class
\* characters after "ref_" is not empty and ends at a ')'; the lazy group is
\* the shortest prefix (one character at least) with only white space after it.
MatchMarker(s, i) ==
    IF i > Len(s) \/ s[i] # "(" THEN [ok |-> FALSE, content |-> <<>>, len |-> 0]
    ELSE LET j == SkipSpace(s, i + 1)
         IN  IF ~HasPrefixAtNoCase(s, j, <<"r", "e", "f", "_">>)
             THEN [ok |-> FALSE, content |-> <<>>, len |-> 0]
             ELSE LET e == MarkerRunEnd(s, j + 4)
                      l == LastNonSpace(s, j + 4, e - 1)
                      c == IF l < j + 4 THEN j + 4 ELSE l
                  IN  IF e > Len(s) \/ s[e] # ")" \/ e = j + 4
                      THEN [ok |-> FALSE, content |-> <<>>, len |-> 0]
                      ELSE [ok |-> TRUE, content |-> SubSeq(s, j, c),
                            len |-> e - i + 1]

\* content.split(/[,\s;]+/): cur is the token being read, inSep tells that the
\* last character read was a separator
RECURSIVE SplitSeparators(_, _, _)
SplitSeparators(s, cur, inSep) ==
    IF s = <<>> THEN <<cur>>
    ELSE IF IsSeparator(Head(s))
         THEN IF inSep THEN SplitSeparators(Tail(s), cur, TRUE)
              ELSE <<cur>> \o SplitSeparators(Tail(s), <<>>, TRUE)
         ELSE SplitSeparators(Tail(s), Append(cur, Head(s)), FALSE)

\* key.split(',')
SplitComma(s, cur) ==
    LET text == cur \o s
        isComma(i) == text[i] = ","
        commas == SelectSeq([i \in 1..Len(text) |-> i], isComma)
    IN  [k \in 1..(Len(commas) + 1) |->
            SubSeq(text,
                   IF k = 1 THEN 1 ELSE commas[k - 1] + 1,
                   IF k > Len(commas) THEN Len(text) ELSE commas[k] - 1)]

\* String.prototype.trim
Trim(s) ==
    LET a == SkipSpace(s, 1)
        b == LastNonSpace(s, 1, Len(s))
    IN  IF a > b THEN <<>> ELSE SubSeq(s, a, b)

\* t.trim().replace(/[^a-zA-Z0-9_]/g, '')
CleanToken(t) == SelectSeq(Trim(t), IsWordChar)

\* valid.join(',')
RECURSIVE Join(_)
Join(ts) ==
    IF ts = <<>> THEN <<>>
    ELSE IF Len(ts) = 1 THEN ts[1]
    ELSE ts[1] \o <<",">> \o Join(Tail(ts))

\* every token kept as soon as one of them is valid
ValidTokensAllOrNone(tokens, validKeys) ==
    IF \E k \in 1..Len(tokens) : CleanToken(tokens[k]) \in validKeys
    THEN tokens ELSE <<>>

\* tokens.filter(t => validKeys.has(cleanT))
ValidTokens(tokens, validKeys) ==
    LET keep(t) == CleanToken(t) \in validKeys
    IN  SelectSeq(tokens, keep)

\* the replace callback of step 2: what one matched marker becomes
MarkerReplacement(match, content, validKeys) ==
    LET valid == ValidTokens(SplitSeparators(content, <<>>, FALSE), validKeys)
    IN  IF Len(valid) > 0 THEN CITE \o Join(valid) \o <<"}">>
        ELSE escapeLatex(match)

\* the marker pattern at every index of the text, with what the callback returns
MarkerTable(text, validKeys) ==
    [i \in 1..Len(text) |->
        LET m == MatchMarker(text, i)
        IN  IF m.ok
            THEN [len |-> m.len,
                  rep |-> MarkerReplacement(SubSeq(text, i, i + m.len - 1),
                                            m.content, validKeys)]
            ELSE NoRep]

\* one step of the global marker replace: a match at st.i is replaced, any
\* other character is copied
ResolveIter(text, st, validKeys) ==
    ReplaceIter(text, MarkerTable(text, validKeys), st)

\* /\\cite\{([^}]+)\}/ at index i
MatchCite(s, i) ==
    IF ~HasPrefixAt(s, i, CITE) THEN [ok |-> FALSE, key |-> <<>>, len |-> 0]
    ELSE LET k == FindChar(s, i + Len(CITE), "}")
         IN  IF k = 0 \/ k = i + Len(CITE)
             THEN [ok |-> FALSE, key |-> <<>>, len |-> 0]
             ELSE [ok |-> TRUE, key |-> SubSeq(s, i + Len(CITE), k - 1),
                   len |-> k - i + 1]

\* /\\cite\{([^}]+)\}\s*\\cite\{([^}]+)\}/ at index i
MatchCitePair(s, i) ==
    LET m1 == MatchCite(s, i)
        m2 == MatchCite(s, SkipSpace(s, i + m1.len))
    IN  IF m1.ok /\ m2.ok
        THEN [ok |-> TRUE, keys1 |-> m1.key, keys2 |-> m2.key,
              len |-> SkipSpace(s, i + m1.len) + m2.len - i]
        ELSE [ok |-> FALSE, keys1 |-> <<>>, keys2 |-> <<>>, len |-> 0]

\* the template literal \cite{keys1,keys2}
MergedCite(keys1, keys2) == CITE \o keys1 \o <<",">> \o keys2 \o <<"}">>

\* one pass of the merge replace over s
MergePass(s) ==
    ReplaceAll(s, [i \in 1..Len(s) |->
                     LET m == MatchCitePair(s, i)
                     IN  [len |-> m.len, rep |-> MergedCite(m.keys1, m.keys2)]])

\* only the first key of the list is looked up
AllValidFirstKeyOnly(key, validKeys) ==
    Trim(SplitComma(key, <<>>)[1]) \in validKeys

\* keys.every(k => validKeys.has(k.trim()))
AllValid(key, validKeys) ==
    LET keys == SplitComma(key, <<>>)
    IN  \A k \in 1..Len(keys) : Trim(keys[k]) \in validKeys

\* a repair that drops the unknown keys and keeps the command when a known
\* key is left
RepairPassPartial(s, validKeys) ==
    ReplaceAll(s, [i \in 1..Len(s) |->
                     LET m == MatchCite(s, i)
                         keys == SplitComma(m.key, <<>>)
                         known(k) == Trim(k) \in validKeys
                         kept == SelectSeq(keys, known)
                     IN  [len |-> m.len,
                          rep |-> IF kept # <<>> THEN CITE \o Join(kept) \o <<"}">>
                                  ELSE GLYPH]])

\* step 4: every \cite{...} with a key outside the list becomes [?]
RepairPass(s, validKeys) ==
    ReplaceAll(s, [i \in 1..Len(s) |->
                     LET m == MatchCite(s, i)
                     IN  [len |-> m.len,
                          rep |-> IF AllValid(m.key, validKeys)
                                  THEN SubSeq(s, i, i + m.len - 1) ELSE GLYPH]])

\* end of the run of digits that starts at j
DigitRunEnd(s, j) == FirstNotIn(s, j, Digit)

\* /\(ref_(\d+)\)/i at index i: the length of the match (0 if none)
MatchOrphan(s, i) ==
    IF ~HasPrefixAtNoCase(s, i, <<"(", "r", "e", "f", "_">>) THEN 0
    ELSE LET e == DigitRunEnd(s, i + 5)
         IN  IF e = i + 5 \/ e > Len(s) \/ s[e] # ")" THEN 0 ELSE e - i + 1

\* step 5: the final safety sweep
SweepPass(s) ==
    ReplaceAll(s, [i \in 1..Len(s) |->
                     LET n == MatchOrphan(s, i)
                     IN  [len |-> n, rep |-> escapeLatex(SubSeq(s, i, i + n - 1))]])

\* step 2 run to the end of the text
ResolveRun(text, st, validKeys) ==
    ReplaceRun(text, MarkerTable(text, validKeys), st, Len(text))

\* do { prev = compiled; merge pass; loopCount++ }
\* while (compiled !== prev && loopCount < 10), entered with n passes done
RECURSIVE MergeLoop(_, _)
MergeLoop(s, n) ==
    LET next == MergePass(s)
    IN  IF next # s /\ n + 1 < MaxMergeLoops THEN MergeLoop(next, n + 1) ELSE next

compileCitations(text, validKeys) ==
    SweepPass(
        RepairPass(
            MergeLoop(ResolveRun(text, [i |-> 1, out |-> <<>>], validKeys).out, 0),
            validKeys))

----------------------------------------------------------------------------
(* sanitizeLatexForExport *)

\* s.replace(/from/g, to) for a literal pattern
ReplaceAllLit(s, from, to) ==
    ReplaceAll(s, [i \in 1..Len(s) |->
                     IF HasPrefixAt(s, i, from) THEN [len |-> Len(from), rep |-> to]
                     ELSE NoRep])

\* end of the run of characters that are not in stop, from j (Len(s) + 1 at the end)
RunEndNotIn(s, j, stop) == FirstIn(s, j, stop)

\* index of the last newline of s[lo..hi] (0 if none)
LastNewline(s, lo, hi) ==
    IF \E k \in lo..hi : s[k] = NL
    THEN CHOOSE k \in lo..hi : s[k] = NL /\ \A m \in (k + 1)..hi : s[m] # NL
    ELSE 0

AllSpace(s, lo, hi) == \A k \in lo..hi : IsSpace(s[k])

splitterCmds ==
    { <<BS, "t", "e", "x", "t", "b", "f">>, <<BS, "t", "e", "x", "t", "i", "t">>, <<BS, "t", "e", "x", "t", "t", "t">>, <<BS, "t", "e", "x", "t", "s", "c">> }

\* /(\\(?:textbf|textit|texttt|textsc))\{([^{}\n]+?)\n\s*\n([^{}\n]+?)\}/ at i:
\* the command, '{', a first part up to a newline, white space ending in a
\* newline, a second part without newline, '}'
MatchSplitter(s, i) ==
    LET no == [ok |-> FALSE, cmd |-> <<>>, a |-> <<>>, b |-> <<>>, len |-> 0]
    IN  IF ~HasPrefixAt(s, i, <<BS, "t", "e", "x", "t">>) \/ i + 7 > Len(s)
           \/ SubSeq(s, i, i + 6) \notin splitterCmds \/ s[i + 7] # "{"
        THEN no
        ELSE LET a1 == i + 8
                 a2 == RunEndNotIn(s, a1, {"{", "}", NL})
                 close == RunEndNotIn(s, a2, {"{", "}"})
                 q == LastNewline(s, a2 + 1, close - 1)
             IN  IF a2 = a1 \/ a2 > Len(s) \/ s[a2] # NL THEN no
                 ELSE IF close > Len(s) \/ s[close] # "}" \/ q = 0 \/ q = close - 1
                      THEN no
                 ELSE IF ~AllSpace(s, a2 + 1, q - 1) THEN no
                 ELSE [ok |-> TRUE, cmd |-> SubSeq(s, i, i + 6),
                       a |-> SubSeq(s, a1, a2 - 1), b |-> SubSeq(s, q + 1, close - 1),
                       len |-> close - i + 1]

\* 0. the splitter: '$1{$2}\n\n$1{$3}'
SplitterPass(s) ==
    ReplaceAll(s, [i \in 1..Len(s) |->
                     LET m == MatchSplitter(s, i)
                     IN  [len |-> m.len,
                          rep |-> m.cmd \o <<"{">> \o m.a \o <<"}", NL, NL>>
                                     \o m.cmd \o <<"{">> \o m.b \o <<"}">>]])

\* /\(ref_(\d+)\)/ at index i, case-sensitive: the length of the match (0 if none)
MatchRefMarker(s, i) ==
    IF ~HasPrefixAt(s, i, <<"(", "r", "e", "f", "_">>) THEN 0
    ELSE LET e == DigitRunEnd(s, i + 5)
         IN  IF e = i + 5 \/ e > Len(s) \/ s[e] # ")" THEN 0 ELSE e - i + 1

\* 1. safety net: (ref_N) becomes (ref\_N)
RefEscapePass(s) ==
    ReplaceAll(s, [i \in 1..Len(s) |->
                     LET n == MatchRefMarker(s, i)
                     IN  [len |-> n,
                          rep |-> <<"(", "r", "e", "f", BS, "_">>
                                     \o SubSeq(s, i + 5, i + n - 1)]])

\* 2. the algorithm package commands, in the order of the replace calls
algorithmCmds ==
    << <<<<BS, "R", "E", "Q", "U", "I", "R", "E">>, <<BS, "R", "e", "q", "u", "i", "r", "e">>>>, <<<<BS, "E", "N", "S", "U", "R", "E">>, <<BS, "E", "n", "s", "u", "r", "e">>>>,
       <<<<BS, "S", "T", "A", "T", "E">>, <<BS, "S", "t", "a", "t", "e">>>>, <<<<BS, "I", "F">>, <<BS, "I", "f">>>>,
       <<<<BS, "E", "N", "D", "I", "F">>, <<BS, "E", "n", "d", "I", "f">>>>, <<<<BS, "E", "L", "S", "E">>, <<BS, "E", "l", "s", "e">>>>,
       <<<<BS, "E", "L", "S", "I", "F">>, <<BS, "E", "l", "s", "I", "f">>>>, <<<<BS, "F", "O", "R">>, <<BS, "F", "o", "r">>>>,
       <<<<BS, "E", "N", "D", "F", "O", "R">>, <<BS, "E", "n", "d", "F", "o", "r">>>>, <<<<BS, "W", "H", "I", "L", "E">>, <<BS, "W", "h", "i", "l", "e">>>>,
       <<<<BS, "E", "N", "D", "W", "H", "I", "L", "E">>, <<BS, "E", "n", "d", "W", "h", "i", "l", "e">>>>, <<<<BS, "R", "E", "T", "U", "R", "N">>, <<BS, "R", "e", "t", "u", "r", "n">>>>,
       <<<<BS, "C", "O", "M", "M", "E", "N", "T">>, <<BS, "C", "o", "m", "m", "e", "n", "t">>>> >>

\* the literal replacements of pairs applied one after the other
RECURSIVE ReplaceEach(_, _)
ReplaceEach(s, pairs) ==
    IF pairs = <<>> THEN s
    ELSE ReplaceEach(ReplaceAllLit(s, Head(pairs)[1], Head(pairs)[2]), Tail(pairs))

AlgorithmPass(s) == ReplaceEach(s, algorithmCmds)

\* 3. the keywords of the \text{kw } replace calls, in their order
textKeywords ==
    << <<"i", "f">>, <<"t", "h", "e", "n">>, <<"e", "l", "s", "e">>, <<"e", "n", "d">>, <<"f", "o", "r">>, <<"w", "h", "i", "l", "e">>, <<"d", "o">>, <<"r", "e", "t", "u", "r", "n">> >>

\* s.replace(/\\text\{kw\s*\}/g, 'kw ')
TextKeywordPass(s, kw) ==
    ReplaceAll(s, [i \in 1..Len(s) |->
                     LET from == <<BS, "t", "e", "x", "t", "{">> \o kw
                         e == SkipSpace(s, i + Len(from))
                     IN  IF HasPrefixAt(s, i, from) /\ e <= Len(s) /\ s[e] = "}"
                         THEN [len |-> e - i + 1, rep |-> kw \o <<" ">>]
                         ELSE NoRep])

RECURSIVE TextKeywordsEach(_, _)
TextKeywordsEach(s, kws) ==
    IF kws = <<>> THEN s
    ELSE TextKeywordsEach(TextKeywordPass(s, Head(kws)), Tail(kws))

\* end of the run of letters that starts at j
LetterRunEnd(s, j) == FirstNotIn(s, j, Lower \cup Upper)

\* s.replace(/\\text\{([A-Z][a-zA-Z]*)\}/g, '$1')
TextCapitalPass(s) ==
    ReplaceAll(s, [i \in 1..Len(s) |->
                     LET e == LetterRunEnd(s, i + 6)
                     IN  IF /\ HasPrefixAt(s, i, <<BS, "t", "e", "x", "t", "{">>)
                            /\ i + 6 <= Len(s) /\ s[i + 6] \in Upper
                            /\ e <= Len(s) /\ s[e] = "}"
                         THEN [len |-> e - i + 1, rep |-> SubSeq(s, i + 6, e - 1)]
                         ELSE NoRep])

TextModePass(s) == TextCapitalPass(TextKeywordsEach(s, textKeywords))

\* an optional [...] group at j, (\[[^\]]*\])? : the index after it (j if absent)
SkipOptionalBrackets(s, j) ==
    IF j <= Len(s) /\ s[j] = "[" /\ FindChar(s, j + 1, "]") # 0
    THEN FindChar(s, j + 1, "]") + 1 ELSE j

\* /\\documentclass(\[[^\]]*\])?\{[^}]+\}/ at index i: the length of the match
MatchDocumentClass(s, i) ==
    IF ~HasPrefixAt(s, i, <<BS, "d", "o", "c", "u", "m", "e", "n", "t", "c", "l", "a", "s", "s">>) THEN 0
    ELSE LET j == SkipOptionalBrackets(s, i + 14)
             k == IF j <= Len(s) /\ s[j] = "{" THEN FindChar(s, j + 1, "}") ELSE 0
         IN  IF k = 0 \/ k = j + 1 THEN 0 ELSE k - i + 1

\* index of the first \documentclass match from i on (0 if none)
FirstDocumentClass(s, i) ==
    IF \E k \in i..Len(s) : MatchDocumentClass(s, k) > 0
    THEN CHOOSE k \in i..Len(s) :
            MatchDocumentClass(s, k) > 0 /\ \A m \in i..(k - 1) : MatchDocumentClass(s, m) = 0
    ELSE 0

\* if (!clean.includes(line)) clean = clean.replace(documentclass, m => m + '\n' + line)
InjectPackage(s, line) ==
    LET p == FirstDocumentClass(s, 1)
        e == p + MatchDocumentClass(s, p)
    IN  IF IndexOf(s, line) # 0 \/ p = 0 THEN s
        ELSE SubSeq(s, 1, e - 1) \o <<NL>> \o line \o SubSeq(s, e, Len(s))

\* 4. package injection
PackagePass(s) ==
    InjectPackage(
        InjectPackage(
            InjectPackage(s, <<BS, "u", "s", "e", "p", "a", "c", "k", "a", "g", "e", "[", "u", "t", "f", "8", "]", "{", "i", "n", "p", "u", "t", "e", "n", "c", "}">>),
            <<BS, "u", "s", "e", "p", "a", "c", "k", "a", "g", "e", "{", "b", "o", "o", "k", "t", "a", "b", "s", "}">>),
        <<BS, "u", "s", "e", "p", "a", "c", "k", "a", "g", "e", "{", "f", "l", "o", "a", "t", "}">>)

floatEnvs == { <<"t", "a", "b", "l", "e">>, <<"f", "i", "g", "u", "r", "e">>, <<"a", "l", "g", "o", "r", "i", "t", "h", "m">> }

\* /\\begin\{(table|figure|algorithm)(\*?)\}(?:\[[^\]]*\])?/ at index i
MatchFloatBegin(s, i) ==
    LET no == [ok |-> FALSE, name |-> <<>>, len |-> 0]
        e == LetterRunEnd(s, i + 7)
        f == IF e <= Len(s) /\ s[e] = "*" THEN e + 1 ELSE e
    IN  IF ~HasPrefixAt(s, i, BEGIN \o <<"{">>) THEN no
        ELSE IF SubSeq(s, i + 7, e - 1) \notin floatEnvs \/ f > Len(s) \/ s[f] # "}"
        THEN no
        ELSE [ok |-> TRUE, name |-> SubSeq(s, i + 7, f - 1),
              len |-> SkipOptionalBrackets(s, f + 1) - i]

\* 5. placement enforcement: '\\begin{$1$2}[H]'
PlacementPass(s) ==
    ReplaceAll(s, [i \in 1..Len(s) |->
                     LET m == MatchFloatBegin(s, i)
                     IN  [len |-> m.len,
                          rep |-> BEGIN \o <<"{">> \o m.name \o <<"}", "[", "H", "]">>]])

\* the grave accent (backtick) character; a TLA+ string cannot hold it, so
\* this token stands for it in the model's texts
BACKTICK == "GRAVE"

\* 7. backtick fix: a backtick, one or more characters that are neither a
\* backtick nor a newline, a backtick, becomes \texttt{code}, the
\* backslashes of the code replaced by \textbackslash{}
BacktickPass(s) ==
    ReplaceAll(s, [i \in 1..Len(s) |->
                     LET e == RunEndNotIn(s, i + 1, {BACKTICK, NL})
                     IN  IF s[i] = BACKTICK /\ e > i + 1 /\ e <= Len(s) /\ s[e] = BACKTICK
                         THEN [len |-> e - i + 1,
                               rep |-> <<BS, "t", "e", "x", "t", "t", "t", "{">>
                                       \o ReplaceAllLit(SubSeq(s, i + 1, e - 1), <<BS>>,
                                            <<BS, "t", "e", "x", "t", "b", "a", "c", "k", "s", "l", "a", "s", "h", "{", "}">>)
                                       \o <<"}">>]
                         ELSE NoRep])

\* 8. orphan backtick fix
OrphanBacktickPass(s) == ReplaceAllLit(s, <<BACKTICK>>, <<BS, "t", "e", "x", "t", "a", "s", "c", "i", "i", "g", "r", "a", "v", "e", "{", "}">>)

\* /(?<!\\)\$\s*([_^])\s*(\{[^}]*\}|[a-zA-Z0-9])/ at index i
MatchMathRepair(s, i) ==
    LET no == [ok |-> FALSE, op |-> <<>>, arg |-> <<>>, len |-> 0]
        j == SkipSpace(s, i + 1)
        k == SkipSpace(s, j + 1)
        close == FindChar(s, k + 1, "}")
    IN  IF s[i] # "$" \/ (i > 1 /\ s[i - 1] = BS) THEN no
        ELSE IF j > Len(s) \/ s[j] \notin {"_", "^"} \/ k > Len(s) THEN no
        ELSE IF s[k] = "{" /\ close # 0
        THEN [ok |-> TRUE, op |-> <<s[j]>>, arg |-> SubSeq(s, k, close),
              len |-> close - i + 1]
        ELSE IF s[k] \in Lower \cup Upper \cup Digit
        THEN [ok |-> TRUE, op |-> <<s[j]>>, arg |-> <<s[k]>>, len |-> k - i + 1]
        ELSE no

\* 10. math mode repair: '$1$2$'
MathRepairPass(s) ==
    ReplaceAll(s, [i \in 1..Len(s) |->
                     LET m == MatchMathRepair(s, i)
                     IN  [len |-> m.len, rep |-> m.op \o m.arg \o <<"$">>]])

----------------------------------------------------------------------------
(* generateLatex *)

\* a property that is undefined, and what a template literal prints for it
UNDEFINED == <<"undefined">>

\* the generator's variable while another function runs
GenIdle ==
    [latex |-> <<>>, processedEnhancements |-> <<>>, idx |-> 0,
     placedEnhancementIds |-> {}, compiledTexts |-> <<>>, hasCJK |-> FALSE]

----------------------------------------------------------------------------
(* fixAIJsonEscaping *)

QUOTE == "\""

\* the list with 'b' left in
validEscapesWithB == {QUOTE, BS, "/", "b", "f", "n", "r", "t", "u"}

\* the characters after a backslash that the scan takes for a valid escape
validEscapes == {QUOTE, BS, "/", "f", "n", "r", "t", "u"}

EscInit == [i |-> 1, result |-> <<>>, inString |-> FALSE, escape |-> FALSE]

\* one pass of  for (let i = 0; i < jsonString.length; i++)
EscIter(jsonString, st) ==
    LET char == jsonString[st.i]
        nextChar == IF st.i < Len(jsonString) THEN jsonString[st.i + 1] ELSE ""
    IN  IF char = QUOTE /\ ~st.escape
        THEN [i |-> st.i + 1, result |-> Append(st.result, char),
              inString |-> ~st.inString, escape |-> FALSE]
        ELSE IF st.inString /\ char = BS /\ ~st.escape
        THEN IF nextChar \in validEscapes
             THEN [i |-> st.i + 1, result |-> Append(st.result, char),
                   inString |-> st.inString, escape |-> TRUE]
             ELSE [i |-> st.i + 1, result |-> st.result \o <<BS, BS>>,
                   inString |-> st.inString, escape |-> FALSE]
        ELSE [i |-> st.i + 1, result |-> Append(st.result, char),
              inString |-> st.inString, escape |-> FALSE]

\* n passes of the loop
RECURSIVE EscSteps(_, _, _)
EscSteps(jsonString, st, n) ==
    IF n = 0 \/ st.i > Len(jsonString) THEN st
    ELSE IF n = 1 THEN EscIter(jsonString, st)
    ELSE LET half == EscSteps(jsonString, st, n \div 2)
         IN  IF half.i > Len(jsonString) THEN half
             ELSE EscSteps(jsonString, half, n - (n \div 2))

fixAIJsonEscaping(jsonString) ==
    EscSteps(jsonString, EscInit, Len(jsonString)).result

----------------------------------------------------------------------------
(* findBalancedJsonEnd *)

\* found is the index returned (0 while the loop runs)
EndInit(startIndex) ==
    [i |-> startIndex, depth |-> 0, inString |-> FALSE, escaped |-> FALSE, found |-> 0]

\* the pass with no escape state: every quote inside a string ends it
EndIterNoEscape(text, st, openChar, closeChar) ==
    LET char == text[st.i]
        next == [st EXCEPT !.i = st.i + 1]
    IN  IF st.inString
        THEN IF char = QUOTE THEN [next EXCEPT !.inString = FALSE]
             ELSE next
        ELSE IF char = QUOTE THEN [next EXCEPT !.inString = TRUE]
        ELSE IF char = openChar THEN [next EXCEPT !.depth = st.depth + 1]
        ELSE IF char = closeChar
        THEN IF st.depth - 1 = 0
             THEN [st EXCEPT !.depth = 0, !.found = st.i]
             ELSE [next EXCEPT !.depth = st.depth - 1]
        ELSE next

\* one pass of  for (let i = startIndex; i < text.length; i++)
EndIter(text, st, openChar, closeChar) ==
    LET char == text[st.i]
        next == [st EXCEPT !.i = st.i + 1]
    IN  IF st.inString
        THEN IF char = BS /\ ~st.escaped THEN [next EXCEPT !.escaped = TRUE]
             ELSE IF char = QUOTE /\ ~st.escaped THEN [next EXCEPT !.inString = FALSE]
             ELSE [next EXCEPT !.escaped = FALSE]
        ELSE IF char = QUOTE THEN [next EXCEPT !.inString = TRUE]
        ELSE IF char = openChar THEN [next EXCEPT !.depth = st.depth + 1]
        ELSE IF char = closeChar
        THEN IF st.depth - 1 = 0
             THEN [st EXCEPT !.depth = 0, !.found = st.i]
             ELSE [next EXCEPT !.depth = st.depth - 1]
        ELSE next

\* n passes of the loop, stopped by the return
RECURSIVE EndSteps(_, _, _, _, _)
EndSteps(text, st, openChar, closeChar, n) ==
    IF n = 0 \/ st.i > Len(text) \/ st.found # 0 THEN st
    ELSE IF n = 1 THEN EndIter(text, st, openChar, closeChar)
    ELSE LET half == EndSteps(text, st, openChar, closeChar, n \div 2)
         IN  IF half.i > Len(text) \/ half.found # 0 THEN half
             ELSE EndSteps(text, half, openChar, closeChar, n - (n \div 2))

\* the index of the matching closeChar, 1-based (0 for the source's -1)
findBalancedJsonEnd(text, startIndex, openChar, closeChar) ==
    EndSteps(text, EndInit(startIndex), openChar, closeChar, Len(text)).found

----------------------------------------------------------------------------
(* JSON.parse, as the runtime of the image (Node 20) implements it *)

\* The messages of the SyntaxError, each without its "in JSON at position N"
\* tail.
Msg ==
    [endOfInput |-> "Unexpected end of JSON input",
     unterminated |-> "Unterminated string",
     trailing |-> "Unexpected non-whitespace character after JSON",
     token |-> "Unexpected token",
     number |-> "Unexpected number",
     propName |-> "Expected property name or '}'",
     quotedName |-> "Expected double-quoted property name",
     colon |-> "Expected ':' after property name",
     commaBrace |-> "Expected ',' or '}' after property value",
     commaBracket |-> "Expected ',' or ']' after array element",
     badEscape |-> "Bad escaped character",
     badUnicode |-> "Bad Unicode escape",
     badControl |-> "Bad control character in string literal",
     minus |-> "No number after minus sign",
     fraction |-> "Unterminated fractional number",
     exponent |-> "Exponent part is missing a number"]

\* control characters a string value can hold, each one character of a text;
\* other is a character written \uXXXX whose code point is not in UnicodeTable
Ctl ==
    [backspace |-> "U+0008", formfeed |-> "U+000C", return |-> "U+000D",
     other |-> "U+XXXX"]

HexDigit == Digit \cup {"a", "b", "c", "d", "e", "f", "A", "B", "C", "D", "E", "F"}

\* the code points the texts of the model write as \uXXXX
UnicodeTable ==
    { <<"0", "0", "2", "6">> :> "&" } @@ { <<"0", "0", "4", "1">> :> "A" }
        @@ { <<"0", "0", "5", "c">> :> BS } @@ { <<"0", "0", "5", "C">> :> BS }

UnicodeChar(hex) ==
    IF hex \in DOMAIN UnicodeTable THEN UnicodeTable[hex] ELSE Ctl.other

\* the values: t is the type, s the characters of a string or a number,
\* kids the elements of an array or the members of an object
JVal(t, s, kids) == [t |-> t, s |-> s, kids |-> kids]
JNone == JVal("none", <<>>, <<>>)

\* obj[key] = val: a key already present keeps its place and takes the value
SetMember(kids, key, val) ==
    IF \E k \in 1..Len(kids) : kids[k].key = key
    THEN [k \in 1..Len(kids) |->
            IF kids[k].key = key THEN [key |-> key, val |-> val] ELSE kids[k]]
    ELSE Append(kids, [key |-> key, val |-> val])

\* results of the parsing functions: i is the index behind what was read
POk(val, i) == [ok |-> TRUE, val |-> val, i |-> i, msg |-> ""]
PErr(msg) == [ok |-> FALSE, val |-> JNone, i |-> 0, msg |-> msg]

\* one step of the scan of a string literal, st.i behind the opening quote
StrIter(s, st) ==
    IF st.i > Len(s) THEN [st EXCEPT !.msg = Msg.unterminated]
    ELSE LET c == s[st.i]
         IN  IF c = QUOTE THEN [st EXCEPT !.i = st.i + 1, !.done = TRUE]
             ELSE IF c \in {NL, "\t", Ctl.backspace, Ctl.formfeed, Ctl.return} THEN [st EXCEPT !.msg = Msg.badControl]
             ELSE IF c # BS THEN [st EXCEPT !.i = st.i + 1, !.out = Append(st.out, c)]
             ELSE IF st.i = Len(s) THEN [st EXCEPT !.msg = Msg.badEscape]
             ELSE LET e == s[st.i + 1]
                      one(x) == [st EXCEPT !.i = st.i + 2, !.out = Append(st.out, x)]
                  IN  IF e \in {QUOTE, BS, "/"} THEN one(e)
                      ELSE IF e = "b" THEN one(Ctl.backspace)
                      ELSE IF e = "f" THEN one(Ctl.formfeed)
                      ELSE IF e = "n" THEN one(NL)
                      ELSE IF e = "r" THEN one(Ctl.return)
                      ELSE IF e = "t" THEN one("\t")
                      ELSE IF e = "u"
                      THEN IF /\ st.i + 5 <= Len(s)
                              /\ \A k \in (st.i + 2)..(st.i + 5) : s[k] \in HexDigit
                           THEN [st EXCEPT !.i = st.i + 6,
                                           !.out = Append(st.out,
                                               UnicodeChar(SubSeq(s, st.i + 2, st.i + 5)))]
                           ELSE [st EXCEPT !.msg = Msg.badUnicode]
                      ELSE [st EXCEPT !.msg = Msg.badEscape]

RECURSIVE StrSteps(_, _, _)
StrSteps(s, st, n) ==
    IF n = 0 \/ st.done \/ st.msg # "" THEN st
    ELSE IF n = 1 THEN StrIter(s, st)
    ELSE LET half == StrSteps(s, st, n \div 2)
         IN  IF half.done \/ half.msg # "" THEN half
             ELSE StrSteps(s, half, n - (n \div 2))

\* a string literal whose opening quote is at index j
ParseString(s, j) ==
    LET st == StrSteps(s, [i |-> j + 1, out |-> <<>>, done |-> FALSE, msg |-> ""],
                       Len(s) - j + 1)
    IN  IF st.done THEN POk(JVal("string", st.out, <<>>), st.i) ELSE PErr(st.msg)

\* a number that starts at index j
ParseNumber(s, j) ==
    LET d0 == IF s[j] = "-" THEN j + 1 ELSE j
        d1 == FirstNotIn(s, d0, Digit)
        hasFrac == d1 <= Len(s) /\ s[d1] = "."
        f1 == IF hasFrac THEN FirstNotIn(s, d1 + 1, Digit) ELSE d1
        hasExp == f1 <= Len(s) /\ s[f1] \in {"e", "E"}
        e0 == IF hasExp /\ f1 + 1 <= Len(s) /\ s[f1 + 1] \in {"+", "-"}
              THEN f1 + 2 ELSE f1 + 1
        e1 == IF hasExp THEN FirstNotIn(s, e0, Digit) ELSE f1
    IN  IF d1 = d0 THEN PErr(Msg.minus)
        ELSE IF s[d0] = "0" /\ d1 > d0 + 1 THEN PErr(Msg.number)
        ELSE IF hasFrac /\ f1 = d1 + 1 THEN PErr(Msg.fraction)
        ELSE IF hasExp /\ e1 = e0 THEN PErr(Msg.exponent)
        ELSE POk(JVal("number", SubSeq(s, j, e1 - 1), <<>>), e1)

\* one of the literals true, false, null at index j
ParseLiteral(s, j, word) ==
    IF HasPrefixAt(s, j, word.text) THEN POk(JVal(word.t, <<>>, <<>>), j + Len(word.text))
    ELSE IF /\ Len(s) - j + 1 < Len(word.text)
               /\ \A k \in j..Len(s) : s[k] = word.text[k - j + 1]
    THEN PErr(Msg.endOfInput)
    ELSE PErr(Msg.token)

literals ==
    [t |-> [t |-> "true", text |-> <<"t", "r", "u", "e">>],
     f |-> [t |-> "false", text |-> <<"f", "a", "l", "s", "e">>],
     n |-> [t |-> "null", text |-> <<"n", "u", "l", "l">>]]

RECURSIVE ParseValue(_, _)
RECURSIVE ParseElements(_, _, _)
RECURSIVE ParseMembers(_, _, _)

\* the elements of an array from index i, behind '[' or ','
ParseElements(s, i, acc) ==
    LET more(v) ==
            LET close(j, items) ==
                    IF j <= Len(s) /\ s[j] = "," THEN ParseElements(s, j + 1, items)
                    ELSE IF j <= Len(s) /\ s[j] = "]"
                    THEN POk(JVal("array", <<>>, items), j + 1)
                    ELSE PErr(Msg.commaBracket)
            IN  IF ~v.ok THEN v ELSE close(SkipSpace(s, v.i), Append(acc, v.val))
    IN  more(ParseValue(s, i))

\* the members of an object from index i, behind '{' or ','
ParseMembers(s, i, acc) ==
    LET close(e, kids) ==
            IF e <= Len(s) /\ s[e] = "," THEN ParseMembers(s, e + 1, kids)
            ELSE IF e <= Len(s) /\ s[e] = "}" THEN POk(JVal("object", <<>>, kids), e + 1)
            ELSE PErr(Msg.commaBrace)
        member(key, v) ==
            IF ~v.ok THEN v
            ELSE close(SkipSpace(s, v.i), SetMember(acc, key.val.s, v.val))
        colon(key, c) ==
            IF c > Len(s) \/ s[c] # ":" THEN PErr(Msg.colon)
            ELSE member(key, ParseValue(s, c + 1))
        name(key) == IF ~key.ok THEN key ELSE colon(key, SkipSpace(s, key.i))
        open(j) ==
            IF j > Len(s) \/ s[j] # QUOTE
            THEN PErr(IF acc = <<>> THEN Msg.propName ELSE Msg.quotedName)
            ELSE name(ParseString(s, j))
    IN  open(SkipSpace(s, i))

\* a value from index i, white space before it skipped
ParseValue(s, i) ==
    LET empty(k, closer) == k <= Len(s) /\ s[k] = closer
        at(j) ==
            IF j > Len(s) THEN PErr(Msg.endOfInput)
            ELSE IF s[j] = QUOTE THEN ParseString(s, j)
            ELSE IF s[j] = "{"
            THEN IF empty(SkipSpace(s, j + 1), "}")
                 THEN POk(JVal("object", <<>>, <<>>), SkipSpace(s, j + 1) + 1)
                 ELSE ParseMembers(s, j + 1, <<>>)
            ELSE IF s[j] = "["
            THEN IF empty(SkipSpace(s, j + 1), "]")
                 THEN POk(JVal("array", <<>>, <<>>), SkipSpace(s, j + 1) + 1)
                 ELSE ParseElements(s, j + 1, <<>>)
            ELSE IF s[j] \in Digit \cup {"-"} THEN ParseNumber(s, j)
            ELSE IF s[j] \in DOMAIN literals THEN ParseLiteral(s, j, literals[s[j]])
            ELSE PErr(Msg.token)
    IN  at(SkipSpace(s, i))

\* JSON.parse(text): one value, and nothing but white space behind it
JSONparse(text) ==
    LET whole(v) ==
            IF ~v.ok THEN v
            ELSE IF SkipSpace(text, v.i) <= Len(text) THEN PErr(Msg.trailing)
            ELSE v
    IN  whole(ParseValue(text, 1))

----------------------------------------------------------------------------
(* extractJson *)

\* the markdown fence, three backticks
FENCE == <<BACKTICK, BACKTICK, BACKTICK>>

\* String.prototype.trim
TrimText(s) ==
    LET lo == SkipSpace(s, 1)
    IN  IF lo > Len(s) THEN <<>>
        ELSE SubSeq(s, lo, CHOOSE hi \in lo..Len(s) :
                              s[hi] \notin Space /\ \A m \in (hi + 1)..Len(s) : s[m] \in Space)

\* .replace(/^FENCE(?:json)?\s*/i, ""): an opening fence at the start, an
\* optional "json" in any case, and the white space behind them
StripOpeningFence(s) ==
    IF ~HasPrefixAt(s, 1, FENCE) THEN s
    ELSE LET j == IF HasPrefixAtNoCase(s, 4, <<"j", "s", "o", "n">>) THEN 8 ELSE 4
         IN  SubSeq(s, SkipSpace(s, j), Len(s))

\* .replace(/\s*FENCE$/g, ""): a closing fence at the very end, and the white
\* space before it
StripClosingFence(s) ==
    IF Len(s) < 3 \/ SubSeq(s, Len(s) - 2, Len(s)) # FENCE THEN s
    ELSE LET spaceFrom == IF \E k \in 1..(Len(s) - 3) : s[k] \notin Space
                          THEN 1 + CHOOSE k \in 1..(Len(s) - 3) :
                                      s[k] \notin Space
                                      /\ \A m \in (k + 1)..(Len(s) - 3) : s[m] \in Space
                          ELSE 1
         IN  SubSeq(s, 1, spaceFrom - 1)

\* 1. remove markdown fences
StripFences(content) == StripClosingFence(StripOpeningFence(TrimText(content)))

\* the search that takes the first "{" whenever the text has one
FindStructureBraceFirst(text) ==
    LET firstBrace == IndexOf(text, <<"{">>)
        firstBracket == IndexOf(text, <<"[">>)
    IN  IF firstBrace # 0
        THEN [start |-> firstBrace,
              end |-> findBalancedJsonEnd(text, firstBrace, "{", "}")]
        ELSE IF firstBracket # 0
        THEN [start |-> firstBracket,
              end |-> findBalancedJsonEnd(text, firstBracket, "[", "]")]
        ELSE [start |-> 0, end |-> 0]

\* 2. the outer-most structure: start and end as the source computes them,
\* 1-based, 0 for the source's -1
FindStructure(text) ==
    LET firstBrace == IndexOf(text, <<"{">>)
        firstBracket == IndexOf(text, <<"[">>)
    IN  IF firstBrace # 0 /\ (firstBracket = 0 \/ firstBrace < firstBracket)
        THEN [start |-> firstBrace,
              end |-> findBalancedJsonEnd(text, firstBrace, "{", "}")]
        ELSE IF firstBracket # 0
        THEN [start |-> firstBracket,
              end |-> findBalancedJsonEnd(text, firstBracket, "[", "]")]
        ELSE [start |-> 0, end |-> 0]

\* the candidate: clean.substring(start, end + 1), or clean.substring(start)
Candidate(text, loc) ==
    IF loc.end # 0 THEN SubSeq(text, loc.start, loc.end)
    ELSE SubSeq(text, loc.start, Len(text))

\* errStr.includes(...) and errorMsg.includes(...), over the messages above
includesTable ==
    { <<Msg.trailing, "Unexpected non-whitespace character">>,
      <<Msg.endOfInput, "Unexpected end of JSON input">>,
      <<Msg.unterminated, "Unterminated string">> }

MsgIncludes(msg, part) == <<msg, part>> \in includesTable

\* /^\s*"[^"]+"\s*:/.test(text)
LooksLikeProperty(text) ==
    LET q == SkipSpace(text, 1)
    IN  /\ q <= Len(text) /\ text[q] = QUOTE
        /\ LET e == FindChar(text, q + 1, QUOTE)
           IN  /\ e > q + 1
               /\ LET c == SkipSpace(text, e + 1)
                  IN  c <= Len(text) /\ text[c] = ":"

Wrapped(text) == <<"{">> \o text \o <<"}">>

\* the first catch block asks for a wrapped retry
WrapAfterDirect(msg, text) ==
    /\ MsgIncludes(msg, "Unexpected non-whitespace character")
         \/ MsgIncludes(msg, "Unexpected token :")
    /\ LooksLikeProperty(text)

\* the test that knows the end-of-input message alone
isTruncatedEndOfInputOnly(errorMsg) ==
    MsgIncludes(errorMsg, "Unexpected end of JSON input")

isTruncated(errorMsg) ==
    \/ MsgIncludes(errorMsg, "Unexpected end of JSON input")
    \/ MsgIncludes(errorMsg, "Unterminated string")
    \/ MsgIncludes(errorMsg, "End of data")

PreviewLen == 200

\* clean.length > 200 ? clean.substring(clean.length - 200) : clean
Preview(text) ==
    IF Len(text) > PreviewLen THEN SubSeq(text, Len(text) - PreviewLen + 1, Len(text))
    ELSE text

\* the errors thrown: kind names the message's fixed head, msg the parser
\* message and preview the text it quotes
NoError == [kind |-> "", msg |-> "", preview |-> <<>>]
NoStructureFound(text) ==
    [kind |-> "No JSON object or array found", msg |-> "",
     preview |-> SubSeq(text, 1, IF Len(text) < 50 THEN Len(text) ELSE 50)]
TruncatedOutput == [kind |-> "AI_OUTPUT_TRUNCATED", msg |-> "", preview |-> <<>>]
MalformedJson(errorMsg, text) ==
    [kind |-> "Failed to parse JSON", msg |-> errorMsg, preview |-> Preview(text)]

\* the variables of fixAIJsonEscaping, extractJson and applyPatches while
\* another function runs
ExtIdle ==
    /\ esc = EscInit
    /\ fixed = <<>>
    /\ value = JNone
    /\ error = NoError
    /\ patches = <<>>
    /\ patchIdx = 1
    /\ currentContent = <<>>
    /\ log = <<>>
    /\ calls = <<>>
    /\ jsonEnd = EndInit(1)
    /\ gen = GenIdle

----------------------------------------------------------------------------
(* sanitizeLatexOutput *)

\* ^ of a pattern with the m flag: the start of the text or of a line
AtLineStart(s, i) == i = 1 \/ s[i - 1] = NL

\* s.replace(pattern, rep) without the g flag: the match of length len at
\* index i becomes rep
ReplaceAt(s, i, len, rep) == SubSeq(s, 1, i - 1) \o rep \o SubSeq(s, i + len, Len(s))

\* /^>.*(\r?\n|$)/gm: the lines that start with '>', each with its newline
QuoteLinePass(s) ==
    ReplaceAll(s, [i \in 1..Len(s) |->
        IF AtLineStart(s, i) /\ s[i] = ">"
        THEN [len |-> LineEnd(s, i) - i + (IF LineEnd(s, i) <= Len(s) THEN 1 ELSE 0),
              rep |-> <<>>]
        ELSE NoRep])

\* /^Thinking Process:[\s\S]*?(\n\n|$)/gim: from the label to the end of its
\* line, and the empty line behind it when there is one
ThinkingProcessPass(s) ==
    ReplaceAll(s, [i \in 1..Len(s) |->
        IF AtLineStart(s, i) /\ HasPrefixAtNoCase(s, i, <<"t", "h", "i", "n", "k", "i", "n", "g", " ", "p", "r", "o", "c", "e", "s", "s", ":">>)
        THEN LET e == LineEnd(s, i + 17)
             IN  [len |-> e - i + (IF HasPrefixAt(s, e, <<NL, NL>>) THEN 2 ELSE 0),
                  rep |-> <<>>]
        ELSE NoRep])

\* /^\*Thinking\.*\*\s*(\r?\n|$)/ and /^\*Thinking\s+Process\.*\*\s*(\r?\n|$)/
\* at index i: the length of the match, 0 if there is none.  The white space
\* behind the closing '*' is taken up to its last newline, or to the end of
\* the text.
MatchThinkingLine(s, i, withProcess) ==
    LET j0 == i + 9
        sp == SkipSpace(s, j0)
        j1 == IF withProcess THEN sp + 7 ELSE j0
        d == FirstNotIn(s, j1, {"."})
        k == SkipSpace(s, d + 1)
        nl == LastNewline(s, d + 1, k - 1)
    IN  IF ~(AtLineStart(s, i) /\ HasPrefixAtNoCase(s, i, <<"*", "t", "h", "i", "n", "k", "i", "n", "g">>)) THEN 0
        ELSE IF withProcess /\ ~(sp > j0 /\ HasPrefixAtNoCase(s, sp, <<"p", "r", "o", "c", "e", "s", "s">>)) THEN 0
        ELSE IF d > Len(s) \/ s[d] # "*" THEN 0
        ELSE IF k > Len(s) THEN Len(s) + 1 - i
        ELSE IF nl # 0 THEN nl + 1 - i
        ELSE 0

ThinkingLinePass(s, withProcess) ==
    ReplaceAll(s, [i \in 1..Len(s) |->
        [len |-> MatchThinkingLine(s, i, withProcess), rep |-> <<>>]])

\* /^phrase[:.]?\s*/im, no g flag: the first line that starts with the phrase
\* loses it, a ':' or '.' behind it, and the white space that follows
LeadInPass(s, phrase) ==
    LET at(i) == AtLineStart(s, i) /\ HasPrefixAtNoCase(s, i, phrase)
    IN  IF ~\E i \in 1..Len(s) : at(i) THEN s
        ELSE LET i == CHOOSE i \in 1..Len(s) : at(i) /\ \A m \in 1..(i - 1) : ~at(m)
                 j == i + Len(phrase)
                 k == IF j <= Len(s) /\ s[j] \in {":", "."} THEN j + 1 ELSE j
             IN  ReplaceAt(s, i, SkipSpace(s, k) - i, <<>>)

\* /<think>[\s\S]*?<\/think>/gi
ThinkTagPass(s) ==
    ReplaceAll(s, [i \in 1..Len(s) |->
        LET close(c) == HasPrefixAtNoCase(s, c, <<"<", "/", "t", "h", "i", "n", "k", ">">>)
            from == i + 7
        IN  IF HasPrefixAtNoCase(s, i, <<"<", "t", "h", "i", "n", "k", ">">>) /\ \E c \in from..Len(s) : close(c)
            THEN [len |-> (CHOOSE c \in from..Len(s) :
                              close(c) /\ \A m \in from..(c - 1) : ~close(m))
                          + 8 - i,
                  rep |-> <<>>]
            ELSE NoRep])

\* /^label\s*/i, no m flag: the label at the very start of the text
LabelPass(s, label) ==
    IF HasPrefixAtNoCase(s, 1, label)
    THEN ReplaceAt(s, 1, SkipSpace(s, Len(label) + 1) - 1, <<>>)
    ELSE s

\* /\*\*([^*]+)\*\*/g -> \textbf{$1}
BoldPass(s) ==
    ReplaceAll(s, [i \in 1..Len(s) |->
        LET k == FirstIn(s, i + 2, {"*"})
        IN  IF HasPrefixAt(s, i, <<"*", "*">>) /\ k > i + 2 /\ HasPrefixAt(s, k, <<"*", "*">>)
            THEN [len |-> k + 2 - i,
                  rep |-> <<BS, "t", "e", "x", "t", "b", "f", "{">> \o SubSeq(s, i + 2, k - 1) \o <<"}">>]
            ELSE NoRep])

\* /^\s*#{n}\s+(.+)$/gm at index i: begin and end of the group (.+), or no
\* match.  \s* and \s+ run over newlines; \s+ gives back what (.+) needs.
MatchHeader(s, i, n) ==
    LET no == [ok |-> FALSE, from |-> 0, to |-> 0]
        h == SkipSpace(s, i)
        a == h + n
        r == SkipSpace(s, a)
        starts == {t \in (a + 1)..r : t <= Len(s) /\ s[t] # NL}
    IN  IF ~AtLineStart(s, i) THEN no
        ELSE IF ~(h + n - 1 <= Len(s) /\ \A k \in h..(h + n - 1) : s[k] = "#") THEN no
        ELSE IF starts = {} THEN no
        ELSE LET from == CHOOSE t \in starts : \A u \in starts : u <= t
             IN  [ok |-> TRUE, from |-> from, to |-> LineEnd(s, from) - 1]

\* # Header -> \section{Header}: cmd{$1}
HeaderPass(s, n, cmd) ==
    ReplaceAll(s, [i \in 1..Len(s) |->
        LET m == MatchHeader(s, i, n)
        IN  IF m.ok THEN [len |-> m.to + 1 - i,
                          rep |-> cmd \o <<"{">> \o SubSeq(s, m.from, m.to) \o <<"}">>]
            ELSE NoRep])

\* /\\textcolor\{[^}]+\}\{([^}]*)\}/g -> $1
TextColorPass(s) ==
    ReplaceAll(s, [i \in 1..Len(s) |->
        LET a == i + 11
            c1 == FindChar(s, a, "}")
            c2 == FindChar(s, c1 + 2, "}")
        IN  IF /\ HasPrefixAt(s, i, <<BS, "t", "e", "x", "t", "c", "o", "l", "o", "r", "{">>)
               /\ c1 > a
               /\ c1 + 1 <= Len(s) /\ s[c1 + 1] = "{"
               /\ c2 # 0
            THEN [len |-> c2 + 1 - i, rep |-> SubSeq(s, c1 + 2, c2 - 1)]
            ELSE NoRep])

\* /\\color\{[^}]+\}/g -> ''
ColorPass(s) ==
    ReplaceAll(s, [i \in 1..Len(s) |->
        LET a == i + 7
            c1 == FindChar(s, a, "}")
        IN  IF HasPrefixAt(s, i, <<BS, "c", "o", "l", "o", "r", "{">>) /\ c1 > a
            THEN [len |-> c1 + 1 - i, rep |-> <<>>]
            ELSE NoRep])

\* /(?<!\$)\\theta/g -> $\theta$
ThetaPass(s) ==
    ReplaceAll(s, [i \in 1..Len(s) |->
        IF HasPrefixAt(s, i, <<BS, "t", "h", "e", "t", "a">>) /\ (i = 1 \/ s[i - 1] # "$")
        THEN [len |-> 6, rep |-> <<"$">> \o <<BS, "t", "h", "e", "t", "a">> \o <<"$">>]
        ELSE NoRep])

\* the replace calls of the function, in their order
sanitizeLatexOutput(text) ==
    LET p1 == QuoteLinePass(text)
        p2 == ThinkingProcessPass(p1)
        p3 == ThinkingLinePass(p2, FALSE)
        p4 == ThinkingLinePass(p3, TRUE)
        p5 == LeadInPass(p4, <<"h", "e", "r", "e", " ", "i", "s", " ", "t", "h", "e", " ", "c", "o", "n", "t", "e", "n", "t">>)
        p6 == LeadInPass(p5, <<"s", "u", "r", "e", ",", " ", "h", "e", "r", "e", " ", "i", "s", " ", "t", "h", "e", " ", "s", "e", "c", "t", "i", "o", "n">>)
        p7 == ThinkTagPass(p6)
        p8 == LabelPass(p7, <<"a", "b", "s", "t", "r", "a", "c", "t", ":">>)
        p9 == LabelPass(p8, <<"t", "i", "t", "l", "e", ":">>)
        p10 == LeadInPass(p9, <<"h", "e", "r", "e", " ", "i", "s", " ", "t", "h", "e", " ", "a", "b", "s", "t", "r", "a", "c", "t">>)
        p11 == LeadInPass(p10, <<"s", "u", "r", "e", ",", " ", "h", "e", "r", "e", " ", "i", "s", " ", "t", "h", "e", " ", "a", "b", "s", "t", "r", "a", "c", "t">>)
        p12 == BoldPass(p11)
        p13 == HeaderPass(p12, 4, <<BS, "p", "a", "r", "a", "g", "r", "a", "p", "h">>)
        p14 == HeaderPass(p13, 3, <<BS, "s", "u", "b", "s", "u", "b", "s", "e", "c", "t", "i", "o", "n">>)
        p15 == HeaderPass(p14, 2, <<BS, "s", "u", "b", "s", "e", "c", "t", "i", "o", "n">>)
        p16 == HeaderPass(p15, 1, <<BS, "s", "e", "c", "t", "i", "o", "n">>)
        p17 == MathRepairPass(p16)
        p18 == ReplaceAllLit(p17, <<BS, "s", "m", "a", "l", "l", "t", "r", "i", "a", "n", "g", "l", "e", "u", "p">>, <<"$">> \o <<BS, "t", "r", "i", "a", "n", "g", "l", "e">> \o <<"$">>)
        p19 == ReplaceAllLit(p18, <<BS, "c", "h", "e", "c", "k", "m", "a", "r", "k">>, <<"$">> \o <<BS, "c", "h", "e", "c", "k", "m", "a", "r", "k">> \o <<"$">>)
        p20 == TextColorPass(p19)
        p21 == ColorPass(p20)
    IN  ThetaPass(p21)

----------------------------------------------------------------------------
(* applyPatches *)

\* String.prototype.includes
Includes(s, p) == p = <<>> \/ IndexOf(s, p) # 0

\* GetSubstitution of String.prototype.replace for a pattern without groups:
\* in the replacement string '$$' stands for '$', '$&' for the match, '$`'
\* for the text before it and "$'" for the text behind it; any other '$' is
\* kept.  The match is s[position .. position + len - 1].
GetSubstitution(replacement, s, position, len) ==
    ReplaceAll(replacement, [i \in 1..Len(replacement) |->
        IF replacement[i] # "$" \/ i = Len(replacement) THEN NoRep
        ELSE IF replacement[i + 1] = "$" THEN [len |-> 2, rep |-> <<"$">>]
        ELSE IF replacement[i + 1] = "&"
        THEN [len |-> 2, rep |-> SubSeq(s, position, position + len - 1)]
        ELSE IF replacement[i + 1] = BACKTICK
        THEN [len |-> 2, rep |-> SubSeq(s, 1, position - 1)]
        ELSE IF replacement[i + 1] = "'"
        THEN [len |-> 2, rep |-> SubSeq(s, position + len, Len(s))]
        ELSE NoRep])

\* the replace of the last occurrence instead of the first
ReplaceLastString(s, searchValue, replaceValue) ==
    LET occ == {k \in 1..(Len(s) + 1) : HasPrefixAt(s, k, searchValue)}
        pos == CHOOSE k \in occ : \A m \in occ : m <= k
    IN  IF occ = {} THEN s
        ELSE ReplaceAt(s, pos, Len(searchValue),
                       GetSubstitution(replaceValue, s, pos, Len(searchValue)))

\* s.replace(searchValue, replaceValue) with a string searchValue: the first
\* occurrence alone
ReplaceFirstString(s, searchValue, replaceValue) ==
    LET pos == IF searchValue = <<>> THEN 1 ELSE IndexOf(s, searchValue)
    IN  IF pos = 0 THEN s
        ELSE ReplaceAt(s, pos, Len(searchValue),
                       GetSubstitution(replaceValue, s, pos, Len(searchValue)))

\* the class [.*+?^${}()|[\]\\]
regexSpecials == {".", "*", "+", "?", "^", "$", "{", "}", "(", ")", "|", "[", "]", BS}

\* patch.original.replace(/[.*+?^${}()|[\]\\]/g, '\\$&')
EscapeRegex(original) ==
    ReplaceAll(original, [i \in 1..Len(original) |->
        IF original[i] \in regexSpecials THEN [len |-> 1, rep |-> <<BS, original[i]>>]
        ELSE NoRep])

\* escapedSearch.replace(/\s+/g, '\\s+')
FuzzyPatternStr(escapedSearch) ==
    ReplaceAll(escapedSearch, [i \in 1..Len(escapedSearch) |->
        IF escapedSearch[i] \in Space
        THEN [len |-> SkipSpace(escapedSearch, i) - i, rep |-> <<BS, "s", "+">>]
        ELSE NoRep])

\* new RegExp(pattern) tried at index i of s, the pattern read from index p:
\* the index behind the match, 0 if there is none.  The pattern holds plain
\* characters, characters behind a backslash and \s+; what follows a \s+ is
\* no white space, so the longest run is the only one that can match.
RECURSIVE MatchFrom(_, _, _, _)
MatchFrom(pattern, p, s, i) ==
    LET then(ok, p2, i2) == IF ok THEN MatchFrom(pattern, p2, s, i2) ELSE 0
    IN  IF p > Len(pattern) THEN i
        ELSE IF HasPrefixAt(pattern, p, <<BS, "s", "+">>)
        THEN then(SkipSpace(s, i) > i, p + 3, SkipSpace(s, i))
        ELSE IF pattern[p] = BS
        THEN then(i <= Len(s) /\ s[i] = pattern[p + 1], p + 2, i + 1)
        ELSE then(i <= Len(s) /\ s[i] = pattern[p], p + 1, i + 1)

\* fuzzyRegex.exec(s): index and length of the first match (index 0: none)
RegExpExec(pattern, s) ==
    LET hit(i) == MatchFrom(pattern, 1, s, i) # 0
    IN  IF ~\E i \in 1..(Len(s) + 1) : hit(i) THEN [index |-> 0, len |-> 0]
        ELSE LET i == CHOOSE i \in 1..(Len(s) + 1) :
                          hit(i) /\ \A m \in 1..(i - 1) : ~hit(m)
             IN  [index |-> i, len |-> MatchFrom(pattern, 1, s, i) - i]

\* s.replace(fuzzyRegex, replaceValue): the first match alone (no g flag)
ReplaceFirstRegExp(s, pattern, replaceValue) ==
    LET m == RegExpExec(pattern, s)
    IN  IF m.index = 0 THEN s
        ELSE ReplaceAt(s, m.index, m.len, GetSubstitution(replaceValue, s, m.index, m.len))

\* a line of the console: which of the three messages, and the
\* patch.original.substring(0, n) it quotes
LogLine(kind, original, n) ==
    [kind |-> kind, text |-> SubSeq(original, 1, IF Len(original) < n THEN Len(original) ELSE n)]

----------------------------------------------------------------------------
(* generateLatex: the functions it calls *)

USETIKZ == <<BS, "u", "s", "e", "t", "i", "k", "z", "l", "i", "b", "r", "a", "r", "y">>

\* /\\usetikzlibrary\s*\{([^}]+)\}/ at index i: the length of the match and
\* its group (length 0 if it does not match there)
MatchTikz(s, i) ==
    IF ~HasPrefixAt(s, i, USETIKZ) THEN [len |-> 0, libs |-> <<>>]
    ELSE LET j == SkipSpace(s, i + Len(USETIKZ))
             e == FirstIn(s, j + 1, {"}"})
         IN  IF j > Len(s) \/ s[j] # "{" \/ e > Len(s) \/ e = j + 1
             THEN [len |-> 0, libs |-> <<>>]
             ELSE [len |-> e - i + 1, libs |-> SubSeq(s, j + 1, e - 1)]

\* libs.forEach(l => { const clean = l.trim(); if (clean) globalLibraries.add(clean) }):
\* a Set keeps its members in the order they were first added
RECURSIVE AddLibraries(_, _)
AddLibraries(globalLibraries, libs) ==
    IF libs = <<>> THEN globalLibraries
    ELSE LET lib == Trim(Head(libs))
             present == \E k \in 1..Len(globalLibraries) : globalLibraries[k] = lib
         IN  AddLibraries(IF lib = <<>> \/ present THEN globalLibraries
                          ELSE Append(globalLibraries, lib),
                          Tail(libs))

\* the while loop over regex.exec(content), from index i on
RECURSIVE CollectLibraries(_, _, _)
CollectLibraries(content, i, globalLibraries) ==
    IF i > Len(content) THEN globalLibraries
    ELSE LET m == MatchTikz(content, i)
         IN  IF m.len = 0 THEN CollectLibraries(content, i + 1, globalLibraries)
             ELSE CollectLibraries(content, i + m.len,
                                   AddLibraries(globalLibraries, SplitComma(m.libs, <<>>)))

\* content.replace(regex, "")
RemoveTikz(content) ==
    LET at == [i \in 1..Len(content) |->
                  [len |-> MatchTikz(content, i).len, rep |-> <<>>]]
    IN  ReplaceAll(content, at)

\* content.replace(/^\s*[\r\n]/gm, ""): at the start of a line, the white
\* space up to the last line break of the run
RemoveEmptyLines(content) ==
    LET lineStart(i) == i = 1 \/ content[i - 1] = NL
        lastBreak(i) ==
            LET e == SkipSpace(content, i)
            IN  IF \E k \in i..(e - 1) : content[k] = NL
                THEN CHOOSE k \in i..(e - 1) :
                         content[k] = NL /\ \A m \in (k + 1)..(e - 1) : content[m] # NL
                ELSE 0
        at == [i \in 1..Len(content) |->
                  IF lineStart(i) /\ lastBreak(i) # 0
                  THEN [len |-> lastBreak(i) - i + 1, rep |-> <<>>]
                  ELSE NoRep]
    IN  ReplaceAll(content, at)

\* the callback of enhancements.map
CleanEnhancement(enh) ==
    IF enh.content = <<>> THEN enh
    ELSE IF \E i \in 1..Len(enh.content) : MatchTikz(enh.content, i).len > 0
         THEN [enh EXCEPT !.content = RemoveEmptyLines(RemoveTikz(enh.content))]
         ELSE enh

defaultLibraries ==
    << <<"p", "o", "s", "i", "t", "i", "o", "n", "i", "n", "g">>,
       <<"a", "r", "r", "o", "w", "s">>,
       <<"s", "h", "a", "p", "e", "s">>,
       <<"c", "a", "l", "c">>,
       <<"d", "e", "c", "o", "r", "a", "t", "i", "o", "n", "s", ".", "p", "a", "t", "h", "r", "e", "p", "l", "a", "c", "i", "n", "g">> >>

RECURSIVE LibrariesOf(_, _)
LibrariesOf(enhancements, globalLibraries) ==
    IF enhancements = <<>> THEN globalLibraries
    ELSE LibrariesOf(Tail(enhancements),
                     CollectLibraries(Head(enhancements).content, 1, globalLibraries))

sanitizeTikzLibraries(enhancements) ==
    [globalLibraries |-> LibrariesOf(enhancements, defaultLibraries),
     cleanedEnhancements |->
         [k \in 1..Len(enhancements) |-> CleanEnhancement(enhancements[k])]]

\* the pieces of the template literals, between their placeholders
Preamble1 ==
    <<BS, "d", "o", "c", "u", "m", "e", "n", "t", "c", "l", "a", "s", "s", "[", "1", "1", "p", "t",
      "]", "{", "a", "r", "t", "i", "c", "l", "e", "}", NL, NL, "%", " ", "P", "a", "c", "k", "a",
      "g", "e", "s", NL, BS, "u", "s", "e", "p", "a", "c", "k", "a", "g", "e", "[", "u", "t", "f",
      "8", "]", "{", "i", "n", "p", "u", "t", "e", "n", "c", "}", NL, BS, "u", "s", "e", "p", "a",
      "c", "k", "a", "g", "e", "{", "a", "m", "s", "m", "a", "t", "h", "}", NL, BS, "u", "s", "e",
      "p", "a", "c", "k", "a", "g", "e", "{", "a", "m", "s", "s", "y", "m", "b", "}", NL, BS, "u",
      "s", "e", "p", "a", "c", "k", "a", "g", "e", "{", "g", "r", "a", "p", "h", "i", "c", "x",
      "}", NL, BS, "u", "s", "e", "p", "a", "c", "k", "a", "g", "e", "{", "h", "y", "p", "e", "r",
      "r", "e", "f", "}", NL, BS, "u", "s", "e", "p", "a", "c", "k", "a", "g", "e", "{", "a", "m",
      "s", "t", "h", "m", "}", NL, BS, "u", "s", "e", "p", "a", "c", "k", "a", "g", "e", "[", "m",
      "a", "r", "g", "i", "n", "=", "1", "i", "n", "]", "{", "g", "e", "o", "m", "e", "t", "r",
      "y", "}", NL, BS, "u", "s", "e", "p", "a", "c", "k", "a", "g", "e", "[", "n", "u", "m", "b",
      "e", "r", "s", ",", "s", "o", "r", "t", "&", "c", "o", "m", "p", "r", "e", "s", "s", "]",
      "{", "n", "a", "t", "b", "i", "b", "}", NL, BS, "u", "s", "e", "p", "a", "c", "k", "a", "g",
      "e", "{", "l", "i", "s", "t", "i", "n", "g", "s", "}", NL, BS, "u", "s", "e", "p", "a", "c",
      "k", "a", "g", "e", "{", "a", "l", "g", "o", "r", "i", "t", "h", "m", "}", NL, BS, "u", "s",
      "e", "p", "a", "c", "k", "a", "g", "e", "{", "a", "l", "g", "p", "s", "e", "u", "d", "o",
      "c", "o", "d", "e", "}", NL, BS, "u", "s", "e", "p", "a", "c", "k", "a", "g", "e", "{", "t",
      "a", "b", "u", "l", "a", "r", "x", "}", NL, BS, "u", "s", "e", "p", "a", "c", "k", "a", "g",
      "e", "{", "b", "o", "o", "k", "t", "a", "b", "s", "}", " ", "%", " ", "F", "i", "x", "e",
      "s", " ", BS, "t", "o", "p", "r", "u", "l", "e", " ", "c", "r", "a", "s", "h", "e", "s", NL,
      BS, "u", "s", "e", "p", "a", "c", "k", "a", "g", "e", "{", "f", "l", "o", "a", "t", "}", " ",
      " ", " ", " ", "%", " ", "F", "i", "x", "e", "s", " ", "t", "a", "b", "l", "e", " ", "d",
      "r", "i", "f", "t", "i", "n", "g", " ", "w", "i", "t", "h", " ", "[", "H", "]", NL>>

Preamble2 ==
    <<NL, NL, "%", " ", "T", "i", "k", "Z", " ", "a", "n", "d", " ", "d", "i", "a", "g", "r", "a",
      "m", " ", "p", "a", "c", "k", "a", "g", "e", "s", NL, BS, "u", "s", "e", "p", "a", "c", "k",
      "a", "g", "e", "{", "t", "i", "k", "z", "}", NL, BS, "u", "s", "e", "t", "i", "k", "z", "l",
      "i", "b", "r", "a", "r", "y", "{">>

Preamble3 ==
    <<"}", NL, BS, "u", "s", "e", "p", "a", "c", "k", "a", "g", "e", "{", "f", "o", "r", "e", "s",
      "t", "}", NL, NL, "%", " ", "T", "h", "e", "o", "r", "e", "m", " ", "e", "n", "v", "i", "r",
      "o", "n", "m", "e", "n", "t", "s", NL, BS, "n", "e", "w", "t", "h", "e", "o", "r", "e", "m",
      "{", "t", "h", "e", "o", "r", "e", "m", "}", "{", "T", "h", "e", "o", "r", "e", "m", "}", NL,
      BS, "n", "e", "w", "t", "h", "e", "o", "r", "e", "m", "{", "l", "e", "m", "m", "a", "}", "{",
      "L", "e", "m", "m", "a", "}", NL, BS, "n", "e", "w", "t", "h", "e", "o", "r", "e", "m", "{",
      "p", "r", "o", "p", "o", "s", "i", "t", "i", "o", "n", "}", "{", "P", "r", "o", "p", "o",
      "s", "i", "t", "i", "o", "n", "}", NL, BS, "n", "e", "w", "t", "h", "e", "o", "r", "e", "m",
      "{", "c", "o", "r", "o", "l", "l", "a", "r", "y", "}", "{", "C", "o", "r", "o", "l", "l",
      "a", "r", "y", "}", NL, BS, "n", "e", "w", "t", "h", "e", "o", "r", "e", "m", "{", "h", "y",
      "p", "o", "t", "h", "e", "s", "i", "s", "}", "{", "H", "y", "p", "o", "t", "h", "e", "s",
      "i", "s", "}", NL, BS, "n", "e", "w", "t", "h", "e", "o", "r", "e", "m", "{", "d", "e", "f",
      "i", "n", "i", "t", "i", "o", "n", "}", "{", "D", "e", "f", "i", "n", "i", "t", "i", "o",
      "n", "}", NL, BS, "n", "e", "w", "t", "h", "e", "o", "r", "e", "m", "{", "r", "e", "m", "a",
      "r", "k", "}", "{", "R", "e", "m", "a", "r", "k", "}", NL, BS, "n", "e", "w", "t", "h", "e",
      "o", "r", "e", "m", "{", "c", "o", "n", "s", "t", "r", "a", "i", "n", "t", "}", "{", "C",
      "o", "n", "s", "t", "r", "a", "i", "n", "t", "}", NL, NL, "%", " ", "P", "a", "r", "a", "g",
      "r", "a", "p", "h", " ", "f", "o", "r", "m", "a", "t", "t", "i", "n", "g", " ", "-", " ",
      "n", "o", " ", "i", "n", "d", "e", "n", "t", "a", "t", "i", "o", "n", ",", " ", "l", "i",
      "n", "e", " ", "b", "r", "e", "a", "k", "s", " ", "b", "e", "t", "w", "e", "e", "n", " ",
      "p", "a", "r", "a", "g", "r", "a", "p", "h", "s", NL, BS, "s", "e", "t", "l", "e", "n", "g",
      "t", "h", "{", BS, "p", "a", "r", "i", "n", "d", "e", "n", "t", "}", "{", "0", "p", "t", "}",
      NL, BS, "s", "e", "t", "l", "e", "n", "g", "t", "h", "{", BS, "p", "a", "r", "s", "k", "i",
      "p", "}", "{", "1", "e", "m", "}", NL, NL, "%", " ", "T", "i", "t", "l", "e", " ", "a", "n",
      "d", " ", "a", "u", "t", "h", "o", "r", NL, BS, "t", "i", "t", "l", "e", "{">>

Preamble4 ==
    <<"}", NL, BS, "a", "u", "t", "h", "o", "r", "{">>

Preamble5 ==
    <<"}", NL, BS, "d", "a", "t", "e", "{", BS, "t", "o", "d", "a", "y", "}", NL, NL, NL, BS, "b",
      "e", "g", "i", "n", "{", "d", "o", "c", "u", "m", "e", "n", "t", "}", NL>>

Preamble6 ==
    <<NL, BS, "m", "a", "k", "e", "t", "i", "t", "l", "e", NL, BS, "b", "e", "g", "i", "n", "{",
      "a", "b", "s", "t", "r", "a", "c", "t", "}", NL>>

Preamble7 ==
    <<NL, BS, "e", "n", "d", "{", "a", "b", "s", "t", "r", "a", "c", "t", "}", NL, NL>>

Footer1 ==
    <<NL, BS, "v", "s", "p", "a", "c", "e", "{", "2", "e", "m", "}", NL, BS, "h", "r", "u", "l",
      "e", NL, BS, "v", "s", "p", "a", "c", "e", "{", "0", ".", "5", "e", "m", "}", NL, BS, "f",
      "o", "o", "t", "n", "o", "t", "e", "s", "i", "z", "e", " ", BS, "t", "e", "x", "t", "i", "t",
      "{", "G", "e", "n", "e", "r", "a", "t", "e", "d", " ", "b", "y", " ", "A", "u", "t", "o",
      "-", "A", "c", "a", "d", "e", "m", "i", "c", "-", "P", "a", "p", "e", "r", " ", "C", "r",
      "e", "a", "t", "e", "d", " ", "b", "y", " ", "K", "e", "i", "t", "h", " ", "L", "i", " ",
      "(", BS, "u", "r", "l", "{", "h", "t", "t", "p", "s", ":", "/", "/", "g", "i", "t", "h", "u",
      "b", ".", "c", "o", "m", "/", "k", "e", "i", "t", "h", "l", "i", "g", "h", "}", ")", "}", NL,
      BS, BS, NL, BS, "f", "o", "o", "t", "n", "o", "t", "e", "s", "i", "z", "e", " ", BS, "t",
      "e", "x", "t", "i", "t", "{", "M", "o", "d", "e", "l", " ", "u", "s", "e", "d", ":", " ",
      "S", "t", "r", "a", "t", "e", "g", "i", "s", "t", " ", "A", "g", "e", "n", "t", ":", " ">>

Footer2 ==
    <<" ", "/", " ", "W", "r", "i", "t", "e", "r", " ", "A", "g", "e", "n", "t", ":", " ">>

Footer3 ==
    <<" ", "/", " ", "L", "i", "b", "r", "a", "r", "i", "a", "n", " ", "A", "g", "e", "n", "t",
      ":", " ">>

Footer4 ==
    <<"}", NL, BS, BS, NL, BS, "f", "o", "o", "t", "n", "o", "t", "e", "s", "i", "z", "e", " ", BS,
      "t", "e", "x", "t", "b", "f", "{", "D", "i", "s", "c", "l", "a", "i", "m", "e", "r", ":",
      "}", " ", "A", "I", "-", "g", "e", "n", "e", "r", "a", "t", "e", "d", " ", "c", "o", "n",
      "t", "e", "n", "t", " ", "c", "a", "n", " ", "c", "o", "n", "t", "a", "i", "n", " ", "e",
      "r", "r", "o", "r", "s", ".", " ", "P", "l", "e", "a", "s", "e", " ", "f", "a", "c", "t",
      "-", "c", "h", "e", "c", "k", " ", "a", "n", "d", " ", "v", "e", "r", "i", "f", "y", " ",
      "r", "e", "s", "p", "o", "n", "s", "i", "b", "l", "y", ".", NL>>

ErrorDocument1 ==
    <<BS, "d", "o", "c", "u", "m", "e", "n", "t", "c", "l", "a", "s", "s", "{", "a", "r", "t", "i",
      "c", "l", "e", "}", NL, BS, "t", "i", "t", "l", "e", "{", "G", "e", "n", "e", "r", "a", "t",
      "i", "o", "n", " ", "E", "r", "r", "o", "r", "}", NL, BS, "a", "u", "t", "h", "o", "r", "{",
      "S", "y", "s", "t", "e", "m", "}", NL, BS, "b", "e", "g", "i", "n", "{", "d", "o", "c", "u",
      "m", "e", "n", "t", "}", NL, BS, "m", "a", "k", "e", "t", "i", "t", "l", "e", NL, BS, "s",
      "e", "c", "t", "i", "o", "n", "*", "{", "C", "r", "i", "t", "i", "c", "a", "l", " ", "E",
      "r", "r", "o", "r", "}", NL, "T", "h", "e", " ", "s", "y", "s", "t", "e", "m", " ", "e", "n",
      "c", "o", "u", "n", "t", "e", "r", "e", "d", " ", "a", " ", "c", "r", "i", "t", "i", "c",
      "a", "l", " ", "e", "r", "r", "o", "r", " ", "w", "h", "i", "l", "e", " ", "g", "e", "n",
      "e", "r", "a", "t", "i", "n", "g", " ", "t", "h", "e", " ", "L", "a", "T", "e", "X", " ",
      "d", "o", "c", "u", "m", "e", "n", "t", ".", NL, BS, "b", "e", "g", "i", "n", "{", "v", "e",
      "r", "b", "a", "t", "i", "m", "}", NL>>

ErrorDocument2 ==
    <<NL, BS, "e", "n", "d", "{", "v", "e", "r", "b", "a", "t", "i", "m", "}", NL, BS, "e", "n",
      "d", "{", "d", "o", "c", "u", "m", "e", "n", "t", "}">>

\* a character of the ranges \u4e00-\u9fff, \u3040-\u309f, \u30a0-\u30ff,
\* written by its code point
CJKChars == {"U+4E2D"}

\* /[\u4e00-\u9fff\u3040-\u309f\u30a0-\u30ff]/.test(s)
TestCJK(s) == \E k \in 1..Len(s) : s[k] \in CJKChars

\* sections.map(s => s.content).join(" ")
RECURSIVE JoinContents(_)
JoinContents(sections) ==
    IF sections = <<>> THEN <<>>
    ELSE IF Len(sections) = 1 THEN sections[1].content
    ELSE sections[1].content \o <<" ">> \o JoinContents(Tail(sections))

\* Array.from(globalLibraries).join(',')
JoinLibraries(globalLibraries) == Join(globalLibraries)

formatAuthorInfo(name, affiliation) ==
    LET n == IF name # <<>> THEN escapeLatex(name) ELSE <<"A", "u", "t", "h", "o", "r", " ", "N", "a", "m", "e">>
    IN  IF affiliation # <<>> /\ Trim(affiliation) # <<>>
        THEN n \o <<BS, BS>> \o escapeLatex(affiliation)
        ELSE n

\* String.prototype.toLowerCase
LowerCase(s) == [k \in 1..Len(s) |-> ToLower(s[k])]

\* .replace(/^(section|part|chapter)\s+/i, "")
StripSectionWord(s) ==
    LET words == << <<"s", "e", "c", "t", "i", "o", "n">>,
                    <<"p", "a", "r", "t">>,
                    <<"c", "h", "a", "p", "t", "e", "r">> >>
        hit(w) == /\ HasPrefixAtNoCase(s, 1, w)
                  /\ Len(s) > Len(w)
                  /\ IsSpace(s[Len(w) + 1])
    IN  IF \E k \in 1..3 : hit(words[k])
        THEN LET w == words[CHOOSE k \in 1..3 : hit(words[k])]
             IN  SubSeq(s, SkipSpace(s, Len(w) + 1), Len(s))
        ELSE s

\* [xmivlc] under the i flag
Roman == {"x", "m", "i", "v", "l", "c", "X", "M", "I", "V", "L", "C"}

\* .replace(/^(\d+|[xmivlc]+)\s*[.:-]\s*/i, ""): the run of digits or of roman
\* letters cannot be shortened, the character behind it being of the run
StripNumbering(s) ==
    LET e == IF s # <<>> /\ s[1] \in Digit THEN FirstNotIn(s, 1, Digit)
             ELSE IF s # <<>> /\ s[1] \in Roman THEN FirstNotIn(s, 1, Roman)
             ELSE 1
        j == SkipSpace(s, e)
    IN  IF e > 1 /\ j <= Len(s) /\ s[j] \in {".", ":", "-"}
        THEN SubSeq(s, SkipSpace(s, j + 1), Len(s))
        ELSE s

\* .replace(/[^a-z0-9]/g, "")
KeepAlnum(s) == LET keep(c) == c \in Lower \cup Digit IN SelectSeq(s, keep)

normalizeSectionName(s) == KeepAlnum(StripNumbering(StripSectionWord(LowerCase(s))))

\* the callback of processedEnhancements.filter for a section
PlacedIn(e, sec) ==
    LET loc == LowerCase(e.location)
        locNorm == normalizeSectionName(loc)
        secNameNorm == normalizeSectionName(sec.name)
        name == LowerCase(sec.name)
    IN  \/ Includes(name, loc)
        \/ Includes(loc, name)
        \/ Includes(secNameNorm, locNorm)
        \/ Includes(locNorm, secNameNorm)

\* /\\begin\{env\}(\[.*?\])?/i at index i: the length of the match (0 if none).
\* The optional group is taken when a ']' follows the '[' on the same line.
MatchFloatOpts(s, i, env) ==
    LET p == BEGIN \o <<"{">> \o env \o <<"}">>
        j == i + Len(p)
        e == FirstIn(s, j + 1, {"]", NL})
    IN  IF ~HasPrefixAtNoCase(s, i, p) THEN 0
        ELSE IF j <= Len(s) /\ s[j] = "[" /\ e <= Len(s) /\ s[e] = "]"
             THEN e - i + 1
             ELSE Len(p)

\* content.replace(/\\begin\{env\}(\[.*?\])?/gi, "\\begin{env}[H]")
ForceHere(content, env) ==
    LET here(len) ==
            IF len > 0
            THEN [len |-> len, rep |-> BEGIN \o <<"{">> \o env \o <<"}", "[", "H", "]">>]
            ELSE NoRep
        at == [i \in 1..Len(content) |-> here(MatchFloatOpts(content, i, env))]
    IN  ReplaceAll(content, at)

\* references.map(r => r.key) as the set compileCitations builds of it
KeysOf(refs) == {refs[k].key : k \in 1..Len(refs)}

\* the value formatEnhancement returns, and the two texts it compiled
formatEnhancement(enh, refs) ==
    IF enh.title = <<>> \/ enh.description = <<>> \/ enh.content = <<>>
    THEN [text |-> <<>>, compiledTexts |-> <<>>]
    ELSE LET title == escapeLatex(enh.title)
             sources == <<enh.description, enh.content>>
             format(desc, contentFixed) ==
                 [text |-> <<BS, "s", "u", "b", "s", "e", "c", "t", "i", "o", "n", "*", "{">> \o title \o <<"}", NL>>
                               \o desc \o <<NL, NL>> \o contentFixed \o <<NL, NL>>,
                  compiledTexts |-> <<desc, contentFixed>>]
             placedHere(compiledBoth) ==
                 format(compiledBoth[1],
                        ForceHere(ForceHere(ForceHere(compiledBoth[2], <<"t", "a", "b", "l", "e">>),
                                            <<"f", "i", "g", "u", "r", "e">>),
                                  <<"a", "l", "g", "o", "r", "i", "t", "h", "m">>))
         IN  placedHere([k \in 1..2 |-> compileCitations(sources[k], KeysOf(refs))])

SECTION == <<BS, "s", "e", "c", "t", "i", "o", "n", "{">>

\* secContent.replace(/^\s*\\section\{[^}]+\}\s*/i, "")
StripSectionCommand(s) ==
    LET j == SkipSpace(s, 1)
        e == FirstIn(s, j + Len(SECTION), {"}"})
    IN  IF HasPrefixAtNoCase(s, j, SECTION) /\ e <= Len(s) /\ e > j + Len(SECTION)
        THEN SubSeq(s, SkipSpace(s, e + 1), Len(s))
        ELSE s

CONTENTLABEL == <<"c", "o", "n", "t", "e", "n", "t", ":">>

\* secContent.replace(/^LABEL[\s\S]*?\nCONTENT:\s*/i, ""): up to the first
\* "\nCONTENT:" behind the label
StripLabelled(s, label) ==
    LET p == <<NL>> \o CONTENTLABEL
        at(k) == HasPrefixAtNoCase(s, k, p)
        from == Len(label) + 1
    IN  IF HasPrefixAtNoCase(s, 1, label) /\ \E k \in from..Len(s) : at(k)
        THEN LET k == CHOOSE k \in from..Len(s) : at(k) /\ \A m \in from..(k - 1) : ~at(m)
             IN  SubSeq(s, SkipSpace(s, k + Len(p)), Len(s))
        ELSE s

\* secContent.replace(/^CONTENT:\s*/i, "")
StripContentLabel(s) ==
    IF HasPrefixAtNoCase(s, 1, CONTENTLABEL)
    THEN SubSeq(s, SkipSpace(s, Len(CONTENTLABEL) + 1), Len(s))
    ELSE s

\* the five replace calls on a section's compiled content
StripResidue(secContent) ==
    StripContentLabel(
        StripLabelled(
            StripLabelled(
                StripLabelled(StripSectionCommand(secContent), <<"s", "e", "c", "t", "i", "o", "n", " ", "n", "a", "m", "e", ":">>),
                <<"s", "e", "c", "t", "i", "o", "n", " ", "t", "i", "t", "l", "e", ":">>),
            <<"n", "a", "m", "e", ":">>))

\* `...${cjkPreamble}...${abstract}...`: the document up to the abstract
Preamble(cjkPreamble, libraries, title, author, cjkStart, abstract) ==
    Preamble1 \o cjkPreamble \o Preamble2 \o libraries \o Preamble3 \o title
        \o Preamble4 \o author \o Preamble5 \o cjkStart \o Preamble6 \o abstract
        \o Preamble7

\* x || "Unknown"
OrUnknown(x) == IF x = <<>> THEN <<"U", "n", "k", "n", "o", "w", "n">> ELSE x

Footer(strategistModel, writerModel, librarianModel) ==
    Footer1 \o escapeLatex(OrUnknown(strategistModel))
        \o Footer2 \o escapeLatex(OrUnknown(writerModel))
        \o Footer3 \o escapeLatex(OrUnknown(librarianModel)) \o Footer4

\* the message of the TypeError that text.replace raises on undefined
ErrorMessage == <<"C", "a", "n", "n", "o", "t", " ", "r", "e", "a", "d", " ", "p", "r", "o", "p", "e", "r",
      "t", "i", "e", "s", " ", "o", "f", " ", "u", "n", "d", "e", "f", "i", "n", "e", "d", " ",
      "(", "r", "e", "a", "d", "i", "n", "g", " ", "'", "r", "e", "p", "l", "a", "c", "e", "'",
      ")">>

ErrorDocument == ErrorDocument1 \o ErrorMessage \o ErrorDocument2

\* the section the loop starts from when the analysis has none
defaultSections ==
    << [name |-> <<"I", "n", "t", "r", "o", "d", "u", "c", "t", "i", "o", "n">>,
        content |-> <<"C", "o", "n", "t", "e", "n", "t", " ", "g", "e", "n", "e", "r", "a", "t",
                      "i", "o", "n", " ", "f", "a", "i", "l", "e", "d", " ", "o", "r", " ", "w",
                      "a", "s", " ", "e", "m", "p", "t", "y", ".">>] >>

\* the for loop over secEnhs: st holds latex, placedEnhancementIds and the
\* texts compiled so far
RECURSIVE PlaceEnhancements(_, _, _)
PlaceEnhancements(secEnhs, refs, st) ==
    IF secEnhs = <<>> THEN st
    ELSE LET enh == Head(secEnhs)
             with(f) ==
                 [latex |-> st.latex \o f.text,
                  placedEnhancementIds |->
                      IF enh.id # <<>> THEN st.placedEnhancementIds \cup {enh.id}
                      ELSE st.placedEnhancementIds,
                  compiledTexts |-> st.compiledTexts \o f.compiledTexts]
         IN  PlaceEnhancements(Tail(secEnhs), refs,
                 IF enh.id # <<>> /\ enh.id \in st.placedEnhancementIds THEN st
                 ELSE with(formatEnhancement(enh, refs)))

\* the for loop over unmatched
RECURSIVE AppendUnmatched(_, _, _)
AppendUnmatched(unmatched, refs, st) ==
    IF unmatched = <<>> THEN st
    ELSE LET with(f) ==
                 [st EXCEPT !.latex = st.latex \o f.text,
                            !.compiledTexts = st.compiledTexts \o f.compiledTexts]
         IN  AppendUnmatched(Tail(unmatched), refs,
                             with(formatEnhancement(Head(unmatched), refs)))

BIBITEM == <<BS, "b", "i", "b", "i", "t", "e", "m", "{">>

\* the line of one reference
BibEntry(ref) ==
    LET author == escapeLatex(ref.author)
        refTitle == escapeLatex(ref.title)
        venue == escapeLatex(ref.venue)
        url == IF ref.url # <<>> THEN <<BS, BS, " ", BS, "u", "r", "l", "{">> \o ref.url \o <<"}">> ELSE <<>>
    IN  BIBITEM \o ref.key \o <<"}", " ">> \o author \o <<".", " ", BS, "t", "e", "x", "t", "i", "t", "{">> \o refTitle
            \o <<"}", ".", " ">> \o venue \o <<",", " ">> \o ref.year \o <<".">>
            \o url \o <<NL>>

\* the bibliography of every reference but the first
BibliographyButFirst(refs) ==
    IF refs = <<>> THEN <<>>
    ELSE <<NL, BS, "b", "e", "g", "i", "n", "{", "t", "h", "e", "b", "i", "b", "l", "i", "o", "g", "r", "a", "p", "h", "y", "}", "{", "9", "9", "}", NL>>
             \o Flatten([k \in 1..(Len(refs) - 1) |-> BibEntry(refs[k + 1])])
             \o <<BS, "e", "n", "d", "{", "t", "h", "e", "b", "i", "b", "l", "i", "o", "g", "r", "a", "p", "h", "y", "}", NL>>

\* the bibliography block: nothing when there is no reference
Bibliography(refs) ==
    IF refs = <<>> THEN <<>>
    ELSE <<NL, BS, "b", "e", "g", "i", "n", "{", "t", "h", "e", "b", "i", "b", "l", "i", "o", "g", "r", "a", "p", "h", "y", "}", "{", "9", "9", "}", NL>>
             \o Flatten([k \in 1..Len(refs) |-> BibEntry(refs[k])])
             \o <<BS, "e", "n", "d", "{", "t", "h", "e", "b", "i", "b", "l", "i", "o", "g", "r", "a", "p", "h", "y", "}", NL>>

\* escapeLatex(undefined) throws
Throws(ref) == UNDEFINED \in {ref.author, ref.title, ref.venue}

----------------------------------------------------------------------------
(* Inputs of the fixLatexBalance runs *)

BalFrags ==
    { BEGIN \o <<"{", "a", "}">>, BEGIN \o <<"{", "b", "}">>,
      END \o <<"{", "a", "}">>,   END \o <<"{", "b", "}">>,
      <<"{">>, <<"}">>, <<BS>>, <<"%">>, <<NL>>, <<"x">> }

BalInputs == {Flatten(fs) : fs \in SeqsUpTo(BalFrags, MaxFrags)}

InitBalance ==
    /\ ExtIdle
    /\ fn = "fixLatexBalance"
    /\ input \in BalInputs
    /\ pc = "scan"
    /\ bal = BalInit
    /\ amp = AmpInit
    /\ clean = <<>>
    /\ CiteIdle
    /\ ret = <<>>

\* one pass of  while (i < latex.length)
BalScan ==
    /\ fn = "fixLatexBalance"
    /\ pc = "scan"
    /\ bal.i <= Len(input)
    /\ bal' = BalIter(input, bal)
    /\ UNCHANGED <<extVars, fn, pc, input, amp, clean, citeVars, ret>>

\* the loop has ended: final cleanup and return.  bal keeps the locals as
\* they were when the loop ended.
BalReturn ==
    /\ fn = "fixLatexBalance"
    /\ pc = "scan"
    /\ bal.i > Len(input)
    /\ ret' = FinalCleanup(bal).result
    /\ pc' = "done"
    /\ UNCHANGED <<extVars, fn, input, bal, amp, clean, citeVars>>

NextBalance == BalScan \/ BalReturn

SpecBalance == InitBalance /\ [][NextBalance]_vars

----------------------------------------------------------------------------
(* Claims about fixLatexBalance *)

BalDone == fn = "fixLatexBalance" /\ pc = "done"

\* C1: the output of fixLatexBalance, scanned again by the same rules, ends
\* with brace depth zero and an empty environment stack.
C1_OutputBalanced ==
    BalDone =>
        LET st == BalRun(ret, BalInit)
        IN  st.braceDepth = 0 /\ st.envStack = <<>>

\* C2: fixLatexBalance is idempotent: repairing the returned text again
\* returns it unchanged.
C2_Idempotent ==
    BalDone => fixLatexBalance(ret) = ret

\* the names of the \end{name} markers that make up s from index i on;
\* the empty name (no marker has it) stands in the list where the text is
\* not such a marker
RECURSIVE ParseEnds(_, _)
ParseEnds(s, i) ==
    IF i > Len(s) THEN <<>>
    ELSE LET m == MatchEnv(s, i, END)
         IN  IF m.ok /\ SubSeq(s, i, i + m.len - 1) = END \o <<"{">> \o m.name \o <<"}">>
             THEN <<m.name>> \o ParseEnds(s, i + m.len)
             ELSE << <<>> >>

Reverse(s) == [k \in 1..Len(s) |-> s[Len(s) + 1 - k]]

\* C3: at the end of the input, with K environments on the stack and brace
\* depth d, the returned text is the scan result followed by d closing braces
\* and then exactly K \end{name} markers, innermost frame first.
C3_AppendsInnermostFirst ==
    BalDone =>
        LET n == Len(bal.result)
            d == bal.braceDepth
        IN  /\ Len(ret) >= n + d
            /\ SubSeq(ret, 1, n) = bal.result
            /\ \A k \in 1..d : ret[n + k] = "}"
            /\ ParseEnds(ret, n + d + 1) = Reverse(bal.envStack)

\* open 'a' then 'b' and one open brace at the end of the input
C3_Witness ==
    /\ BalDone
    /\ bal.envStack = << <<"a">>, <<"b">> >>
    /\ bal.braceDepth = 1
    /\ SubSeq(ret, Len(ret) - 14, Len(ret)) =
            <<"}">> \o END \o <<"{", "b", "}">> \o END \o <<"{", "a", "}">>

----------------------------------------------------------------------------
(* Runs of escapeTextAmpersands *)

AmpFrags ==
    { <<"&">>,
      BEGIN \o <<"{", "a", "l", "i", "g", "n", "*", "}">>,
      END \o <<"{", "a", "l", "i", "g", "n", "}">>,
      BEGIN \o <<"{", "a", "}">>, END \o <<"{", "a", "}">>,
      <<BS, "u", "r", "l", "{">>, <<BS, "h", "r", "e", "f", "[">>,
      <<"]">>, <<"{">>, <<"}">>, <<"%">>, <<NL>>, <<BS>>, DOCUMENT, <<"x">> }

AmpInputs == {Flatten(fs) : fs \in SeqsUpTo(AmpFrags, MaxAmpFrags)}

InitAmp ==
    /\ ExtIdle
    /\ fn = "escapeTextAmpersands"
    /\ input \in AmpInputs
    /\ pc = "scan"
    /\ bal = BalInit
    /\ amp = AmpInit
    /\ clean = <<>>
    /\ CiteIdle
    /\ ret = <<>>

\* one pass of  while (i < body.length)
AmpScan ==
    /\ fn = "escapeTextAmpersands"
    /\ pc = "scan"
    /\ amp.i <= Len(AmpBody(input))
    /\ amp' = AmpIter(AmpBody(input), amp)
    /\ UNCHANGED <<extVars, fn, pc, input, bal, clean, citeVars, ret>>

\* return preamble + result
AmpReturn ==
    /\ fn = "escapeTextAmpersands"
    /\ pc = "scan"
    /\ amp.i > Len(AmpBody(input))
    /\ ret' = AmpPreamble(input) \o amp.result
    /\ pc' = "done"
    /\ UNCHANGED <<extVars, fn, input, bal, amp, clean, citeVars>>

NextAmp == AmpScan \/ AmpReturn

SpecAmp == InitAmp /\ [][NextAmp]_vars

----------------------------------------------------------------------------
(* Claims about escapeTextAmpersands *)

AmpScanning ==
    fn = "escapeTextAmpersands" /\ pc = "scan" /\ amp.i <= Len(AmpBody(input))

AmpDone == fn = "escapeTextAmpersands" /\ pc = "done"

\* some frame of the stack, its trailing '*' ignored, is a structural environment
SomeFrameStructural(stack) ==
    \E j \in 1..Len(stack) : StripTrailingStar(stack[j]) \in structuralEnvs

\* C4 as stated: an '&' met under a structural frame is copied unescaped, and
\* every '&' of the body consumed while the stack is empty reaches the output
\* as '\&' (with a backslash right before it).
C4_EveryAmpersandOutsideEscaped ==
    [][AmpScanning =>
        LET emitted == SubSeq(amp'.result, Len(amp.result) + 1, Len(amp'.result))
        IN  /\ (AmpBody(input)[amp.i] = "&" /\ SomeFrameStructural(amp.envStack))
                => emitted = <<"&">>
            /\ amp.envStack = <<>> =>
                \A k \in 1..Len(emitted) :
                    emitted[k] = "&" => (k > 1 /\ emitted[k - 1] = BS)]_vars

\* C4 as amended: an '&' the scanner meets (not inside a line comment, not
\* inside a verbatim command's argument, not the character copied with a
\* command's backslash) is copied unescaped when some frame of the stack is
\* structural, and is emitted as '\&' otherwise, in particular outside any
\* environment.
C4_MetAmpersandByContext ==
    [][(AmpScanning /\ AmpBody(input)[amp.i] = "&") =>
        /\ amp'.i = amp.i + 1
        /\ amp'.envStack = amp.envStack
        /\ amp'.result = amp.result \o
              (IF SomeFrameStructural(amp.envStack) THEN <<"&">> ELSE <<BS, "&">>)]_vars

\* an '&' met under align* with a non-structural frame on top of it was
\* copied unescaped
C4_Witness ==
    /\ fn = "escapeTextAmpersands"
    /\ input = BEGIN \o <<"{", "a", "l", "i", "g", "n", "*", "}">>
                     \o BEGIN \o <<"{", "a", "}">> \o <<"&">>
    /\ amp.i > Len(input)
    /\ amp.envStack = << <<"a", "l", "i", "g", "n", "*">>, <<"a">> >>
    /\ amp.result = input

\* C5: for an input that contains \begin{document}, the returned text is the
\* segment before the first \begin{document}, unchanged, followed by the
\* transformed body.
C5_PreambleUntouched ==
    (AmpDone /\ IndexOf(input, DOCUMENT) # 0) =>
        LET d == IndexOf(input, DOCUMENT)
        IN  /\ Len(ret) >= d - 1
            /\ SubSeq(ret, 1, d - 1) = SubSeq(input, 1, d - 1)
            /\ ret = SubSeq(input, 1, d - 1)
                        \o escapeTextAmpersands(SubSeq(input, d, Len(input)))

\* an '&' before \begin{document} is kept, one after it is escaped
C5_Witness ==
    /\ AmpDone
    /\ input = <<"&">> \o DOCUMENT \o <<"&">>
    /\ ret = <<"&">> \o DOCUMENT \o <<BS, "&">>

----------------------------------------------------------------------------
(* Runs of compileCitations *)

REF1 == <<"r", "e", "f", "_", "1">>
REF2 == <<"r", "e", "f", "_", "2">>
REF9 == <<"r", "e", "f", "_", "9">>

CiteFrags ==
    { <<"(">> \o REF1 \o <<")">>,
      <<"(", " ">> \o REF2 \o <<",">> \o REF9 \o <<";", " ">> \o REF1 \o <<" ", ")">>,
      <<"(", "R", "e", "f", "_", "1", ")">>,
      CITE \o REF1 \o <<"}">>, CITE \o REF2 \o <<"}">>, CITE \o REF9 \o <<"}">>,
      <<" ">>, <<"(">>, <<")">>, REF1, <<",">>, CITE, <<"}">> }

CiteInputs == {Flatten(fs) : fs \in SeqsUpTo(CiteFrags, MaxCiteFrags)}

\* the key sets of the reference lists tried; ref_9 is never a valid key
CiteKeySets == { {}, {REF1}, {REF1, REF2} }

InitCite ==
    /\ ExtIdle
    /\ fn = "compileCitations"
    /\ input \in CiteInputs
    /\ references \in CiteKeySets
    /\ pc = "resolve"
    /\ res = [i |-> 1, out |-> <<>>]
    /\ compiled = <<>>
    /\ prev = <<>>
    /\ loopCount = 0
    /\ bal = BalInit
    /\ amp = AmpInit
    /\ clean = <<>>
    /\ ret = <<>>

\* step 2, one step of text.replace(marker, callback)
CiteResolveStep ==
    /\ fn = "compileCitations"
    /\ pc = "resolve"
    /\ res.i <= Len(input)
    /\ res' = ResolveIter(input, res, references)
    /\ UNCHANGED <<extVars, fn, pc, input, bal, amp, clean, references, compiled, prev, loopCount, ret>>

\* step 2 done: compiled holds the replaced text
CiteResolved ==
    /\ fn = "compileCitations"
    /\ pc = "resolve"
    /\ res.i > Len(input)
    /\ compiled' = res.out
    /\ pc' = "merge"
    /\ UNCHANGED <<extVars, fn, input, bal, amp, clean, references, res, prev, loopCount, ret>>

\* step 3, one pass of the do-while merge loop
CiteMerge ==
    /\ fn = "compileCitations"
    /\ pc = "merge"
    /\ prev' = compiled
    /\ compiled' = MergePass(compiled)
    /\ loopCount' = loopCount + 1
    /\ pc' = IF compiled' # prev' /\ loopCount' < MaxMergeLoops
             THEN "merge" ELSE "repair"
    /\ UNCHANGED <<extVars, fn, input, bal, amp, clean, references, res, ret>>

\* step 4, citation repair
CiteRepair ==
    /\ fn = "compileCitations"
    /\ pc = "repair"
    /\ compiled' = RepairPass(compiled, references)
    /\ pc' = "sweep"
    /\ UNCHANGED <<extVars, fn, input, bal, amp, clean, references, res, prev, loopCount, ret>>

\* step 5, the final safety sweep, and the return
CiteSweep ==
    /\ fn = "compileCitations"
    /\ pc = "sweep"
    /\ compiled' = SweepPass(compiled)
    /\ ret' = compiled'
    /\ pc' = "done"
    /\ UNCHANGED <<extVars, fn, input, bal, amp, clean, references, res, prev, loopCount>>

NextCite ==
    CiteResolveStep \/ CiteResolved \/ CiteMerge \/ CiteRepair \/ CiteSweep

SpecCite == InitCite /\ [][NextCite]_vars

----------------------------------------------------------------------------
(* Claims about compileCitations *)

CiteDone == fn = "compileCitations" /\ pc = "done"

\* the keys a \cite{...} argument lists
KeyList(key) ==
    LET keys == SplitComma(key, <<>>)
    IN  [k \in 1..Len(keys) |-> Trim(keys[k])]

RECURSIVE WordRuns(_, _)
WordRuns(s, cur) ==
    IF s = <<>> THEN (IF cur = <<>> THEN <<>> ELSE <<cur>>)
    ELSE IF IsWordChar(Head(s)) THEN WordRuns(Tail(s), Append(cur, Head(s)))
    ELSE (IF cur = <<>> THEN <<>> ELSE <<cur>>) \o WordRuns(Tail(s), <<>>)

\* s with a backslash put before every underscore
RECURSIVE UnderscoresEscaped(_)
UnderscoresEscaped(s) ==
    IF s = <<>> THEN <<>>
    ELSE (IF Head(s) = "_" THEN <<BS, "_">> ELSE <<Head(s)>>)
         \o UnderscoresEscaped(Tail(s))

\* C8: the resolution step replaces a marker listing N tokens, M of them
\* valid, by one \cite command with exactly the M valid tokens in their
\* original order when M > 0, and by the marker's own text, LaTeX-escaped,
\* when M = 0.
C8_MarkerResolution ==
    [][(fn = "compileCitations" /\ pc = "resolve" /\ res.i <= Len(input)
            /\ MatchMarker(input, res.i).ok) =>
        LET match == SubSeq(input, res.i, res'.i - 1)
            tokens == WordRuns(match, <<>>)
            isValid(t) == t \in references
            valid == SelectSeq(tokens, isValid)
        IN  /\ res'.i > res.i
            /\ Head(match) = "(" /\ Last(match) = ")"
            /\ FindChar(match, 2, "(") = 0
            /\ FindChar(match, 1, ")") = Len(match)
            /\ res'.out = res.out \o
                  (IF Len(valid) > 0 THEN CITE \o Join(valid) \o <<"}">>
                   ELSE UnderscoresEscaped(match))]_vars

\* of the three tokens ref_2, ref_9, ref_1 the two valid ones are cited, in order
C8_Witness ==
    /\ fn = "compileCitations"
    /\ pc = "resolve"
    /\ references = {REF1, REF2}
    /\ input = <<"(", " ">> \o REF2 \o <<",">> \o REF9 \o <<";", " ">> \o REF1
                   \o <<" ", ")">>
    /\ res.i > Len(input)
    /\ res.out = CITE \o REF2 \o <<",">> \o REF1 \o <<"}">>

\* no \cite command of s lists a key twice
NoKeyTwice(s) ==
    \A p \in 1..Len(s) :
        MatchCite(s, p).ok =>
            LET keys == KeyList(MatchCite(s, p).key)
            IN  \A a, b \in 1..Len(keys) : keys[a] = keys[b] => a = b

\* C9: the merged command lists the union of the merged commands' keys, each
\* key once: when no command lists a key twice before the merge loop, none
\* does after it.
C9_MergedKeysOnce ==
    (fn = "compileCitations" /\ pc = "repair" /\ NoKeyTwice(res.out))
        => NoKeyTwice(compiled)

\* n steps of a left-to-right scan for \cite commands: st.out collects the
\* matches found so far
RECURSIVE ScanCitesRun(_, _, _)
ScanCitesRun(s, st, n) ==
    IF n = 0 \/ st.i > Len(s) THEN st
    ELSE IF n = 1
    THEN LET m == MatchCite(s, st.i)
         IN  IF m.ok THEN [i |-> st.i + m.len, out |-> Append(st.out, m)]
             ELSE [i |-> st.i + 1, out |-> st.out]
    ELSE LET half == ScanCitesRun(s, st, n \div 2)
         IN  IF half.i > Len(s) THEN half
             ELSE ScanCitesRun(s, half, n - (n \div 2))

\* the \cite commands a left-to-right replace finds in s
ScanCites(s) == ScanCitesRun(s, [i |-> 1, out |-> <<>>], Len(s)).out

HasUnknownKey(key) ==
    \E k \in 1..Len(KeyList(key)) : KeyList(key)[k] \notin references

RECURSIVE SumLen(_)
SumLen(ms) == IF ms = <<>> THEN 0 ELSE Head(ms).len + SumLen(Tail(ms))

CountOcc(s, p) == Cardinality({i \in 1..Len(s) : HasPrefixAt(s, i, p)})

\* C10: the repair step replaces every \cite command that lists a key outside
\* the valid-key set by the glyph [?], whole, and keeps the others; two
\* adjacent commands of which one lists an unknown key have been merged before
\* and are replaced together.
C10_WholeCommandReplaced ==
    [][(fn = "compileCitations" /\ pc = "repair") =>
        LET cmds == ScanCites(compiled)
            isBad(m) == HasUnknownKey(m.key)
            bad == SelectSeq(cmds, isBad)
            pair == MatchCitePair(res.out, 1)
        IN  /\ CountOcc(compiled', GLYPH) = CountOcc(compiled, GLYPH) + Len(bad)
            /\ Len(compiled') = Len(compiled) - SumLen(bad) + Len(GLYPH) * Len(bad)
            /\ Len(ScanCites(compiled')) = Len(cmds) - Len(bad)
            /\ \A p \in 1..Len(compiled') :
                  MatchCite(compiled', p).ok => ~HasUnknownKey(MatchCite(compiled', p).key)
            /\ (pair.ok /\ pair.len = Len(res.out)
                    /\ (HasUnknownKey(pair.keys1) \/ HasUnknownKey(pair.keys2)))
                  => compiled' = GLYPH]_vars

\* \cite{ref_1}\cite{ref_9} with only ref_1 valid is returned as [?]
C10_Witness ==
    /\ CiteDone
    /\ references = {REF1}
    /\ input = CITE \o REF1 \o <<"}">> \o CITE \o REF9 \o <<"}">>
    /\ ret = GLYPH

----------------------------------------------------------------------------
(* Runs of sanitizeLatexForExport *)

ExportFrags ==
    { <<BACKTICK>>, <<"&">>, <<"x">>, <<"{">>, <<"}">>, <<"%">>, <<BS>>, <<NL>>,
      <<"$">>, <<"_">>,
      <<BS, "b", "e", "g", "i", "n", "{", "a", "l", "i", "g", "n", "}">>, <<BS, "e", "n", "d", "{", "a", "l", "i", "g", "n", "}">>,
      <<BS, "d", "o", "c", "u", "m", "e", "n", "t", "c", "l", "a", "s", "s", "{", "a", "}">>, <<BS, "b", "e", "g", "i", "n", "{", "t", "a", "b", "l", "e", "}">>, <<BS, "R", "E", "Q", "U", "I", "R", "E">>, <<BS, "t", "e", "x", "t", "{", "i", "f", " ", "}">>,
      <<BS, "t", "e", "x", "t", "{", "A", "}">>, <<"(", "r", "e", "f", "_", "1", ")">>, <<BS, "t", "e", "x", "t", "b", "f", "{", "a", NL, NL, "b", "}">> }

ExportInputs == {Flatten(fs) : fs \in SeqsUpTo(ExportFrags, MaxExportFrags)}

InitExport ==
    /\ ExtIdle
    /\ fn = "sanitizeLatexForExport"
    /\ input \in ExportInputs
    /\ pc = "start"
    /\ clean = <<>>
    /\ bal = BalInit
    /\ amp = AmpInit
    /\ CiteIdle
    /\ ret = <<>>

ExportStep(at, text, to) ==
    /\ fn = "sanitizeLatexForExport"
    /\ pc = at
    /\ clean' = text
    /\ pc' = to
    /\ UNCHANGED <<extVars, fn, input, bal, amp, citeVars, ret>>

\* if (!latex) return ""
ExpEmpty ==
    /\ fn = "sanitizeLatexForExport"
    /\ pc = "start"
    /\ input = <<>>
    /\ ret' = <<>>
    /\ pc' = "done"
    /\ UNCHANGED <<extVars, fn, input, bal, amp, clean, citeVars>>

\* 0. splitter
ExpSplitter == input # <<>> /\ ExportStep("start", SplitterPass(input), "refs")
\* 1. safety net for orphaned markers
ExpRefs == ExportStep("refs", RefEscapePass(clean), "algorithm")
\* 2. algorithm package fix
ExpAlgorithm == ExportStep("algorithm", AlgorithmPass(clean), "textmode")
\* 3. algorithm text mode fix
ExpTextMode == ExportStep("textmode", TextModePass(clean), "packages")
\* 4. package injection
ExpPackages == ExportStep("packages", PackagePass(clean), "placement")
\* 5. placement enforcement
ExpPlacement == ExportStep("placement", PlacementPass(clean), "ampersands")
\* 6. context-aware ampersand sanitization
ExpAmpersands == ExportStep("ampersands", escapeTextAmpersands(clean), "backticks")
\* 7. backtick fix
ExpBackticks == ExportStep("backticks", BacktickPass(clean), "orphans")
\* 8. orphan backtick fix
ExpOrphanBackticks == ExportStep("orphans", OrphanBacktickPass(clean), "balance")
\* 9. balance fixer
ExpBalance == ExportStep("balance", fixLatexBalance(clean), "math")

\* 10. math mode repair, and the return
ExpMathRepair ==
    /\ fn = "sanitizeLatexForExport"
    /\ pc = "math"
    /\ clean' = MathRepairPass(clean)
    /\ ret' = clean'
    /\ pc' = "done"
    /\ UNCHANGED <<extVars, fn, input, bal, amp, citeVars>>

NextExport ==
    \/ ExpEmpty \/ ExpSplitter \/ ExpRefs \/ ExpAlgorithm \/ ExpTextMode
    \/ ExpPackages \/ ExpPlacement \/ ExpAmpersands \/ ExpBackticks
    \/ ExpOrphanBackticks \/ ExpBalance \/ ExpMathRepair

SpecExport == InitExport /\ [][NextExport]_vars

----------------------------------------------------------------------------
(* Claims about sanitizeLatexForExport *)

ExportDone == fn = "sanitizeLatexForExport" /\ pc = "done"

\* C6: the document sanitizeLatexForExport returns holds no unescaped '&'
\* outside a structural environment: the Escaper's scan of it finds no '&'
\* left to escape.  (The other half of the claim, that the document is
\* balanced, is the property of C1.)
C6_ExportNoUnescapedAmpersand ==
    ExportDone => escapeTextAmpersands(ret) = ret

----------------------------------------------------------------------------
(* A text field through the Citation Compiler and then the Escaper *)

\* number of fragments a text field is assembled from
MaxFieldFrags == 3

REF12 == <<"r", "e", "f", "_", "1", "2">>

ScenarioB ==
    <<"U", "n", "i", "t", "y", " ", "&", " ", "C", "a", "t", "a", "l", "o", "g", " ",
      "(">> \o REF12 \o <<")", " ", "d", "o", " ", "R", "&", "D">>

FieldFrags ==
    { <<"U", "n", "i", "t", "y", " ">>, <<"&">>, <<" ", "d", "o", " ", "R">>, <<"D">>,
      <<BS, "&">>, <<" ">>,
      <<"(">> \o REF12 \o <<")">>, <<"(">> \o REF9 \o <<")">>,
      <<"(">> \o REF12 \o <<",", " ">> \o REF9 \o <<")">>,
      CITE \o REF12 \o <<"}">>, CITE \o REF9 \o <<"}">> }

FieldInputs ==
    {Flatten(fs) : fs \in SeqsUpTo(FieldFrags, MaxFieldFrags)} \cup {ScenarioB}

InitField ==
    /\ ExtIdle
    /\ fn = "field"
    /\ input \in FieldInputs
    /\ references \in { {}, {REF12} }
    /\ pc = "compile"
    /\ res = [i |-> 1, out |-> <<>>]
    /\ compiled = <<>>
    /\ prev = <<>>
    /\ loopCount = 0
    /\ bal = BalInit
    /\ amp = AmpInit
    /\ clean = <<>>
    /\ ret = <<>>

\* generateLatex: compileCitations(sec.content, analysis.references || [])
FieldCompile ==
    /\ fn = "field"
    /\ pc = "compile"
    /\ compiled' = compileCitations(input, references)
    /\ pc' = "escape"
    /\ UNCHANGED <<extVars, fn, input, bal, amp, clean, references, res, prev, loopCount, ret>>

\* the escaper run on the raw field instead of the compiled text
FieldEscapeRaw ==
    /\ fn = "field"
    /\ pc = "escape"
    /\ ret' = escapeTextAmpersands(input)
    /\ pc' = "done"
    /\ UNCHANGED <<extVars, fn, input, bal, amp, clean, citeVars>>

\* sanitizeLatexForExport: clean = escapeTextAmpersands(clean)
FieldEscape ==
    /\ fn = "field"
    /\ pc = "escape"
    /\ ret' = escapeTextAmpersands(compiled)
    /\ pc' = "done"
    /\ UNCHANGED <<extVars, fn, input, bal, amp, clean, citeVars>>

NextField == FieldCompile \/ FieldEscape

SpecField == InitField /\ [][NextField]_vars

----------------------------------------------------------------------------
(* Claims about the compiler followed by the escaper *)

FieldDone == fn = "field" /\ pc = "done"

\* s with a backslash put before every '&' that has none
BareAmpersandsEscaped(s) ==
    ReplaceAll(s, [i \in 1..Len(s) |->
        IF s[i] = "&" /\ (i = 1 \/ s[i - 1] # BS)
        THEN [len |-> 1, rep |-> <<BS, "&">>] ELSE NoRep])

\* C11: the Citation Compiler and then the Escaper, run on a text field,
\* resolve the field's markers and escape every text '&', and the Escaper
\* leaves the citation commands the Compiler produced as they are; the field
\* 'Unity & Catalog (ref_12) do R&D' with the valid key ref_12 becomes
\* 'Unity \& Catalog \cite{ref_12} do R\&D'.
C11_CompileThenEscape ==
    FieldDone =>
        /\ ScanCites(ret) = ScanCites(compiled)
        /\ \A p \in 1..Len(ret) : ~MatchMarker(ret, p).ok
        /\ ret = BareAmpersandsEscaped(compiled)
        /\ escapeTextAmpersands(ret) = ret
        /\ (input = ScenarioB /\ references = {REF12}) =>
              ret = <<"U", "n", "i", "t", "y", " ", BS, "&", " ",
                      "C", "a", "t", "a", "l", "o", "g", " ">>
                    \o CITE \o REF12 \o <<"}", " ", "d", "o", " ", "R", BS, "&", "D">>

\* Scenario B has been compiled and escaped
C11_Witness ==
    /\ FieldDone
    /\ input = ScenarioB
    /\ references = {REF12}
    /\ compiled = <<"U", "n", "i", "t", "y", " ", "&", " ",
                    "C", "a", "t", "a", "l", "o", "g", " ">>
                  \o CITE \o REF12 \o <<"}", " ", "d", "o", " ", "R", "&", "D">>
    /\ Len(ret) = Len(compiled) + 2

----------------------------------------------------------------------------
(* Runs of fixAIJsonEscaping *)

\* number of fragments the string literal of an input is assembled from
MaxEscFrags == 3

EscFrags ==
    { <<BS>>,
      <<"b">>,
      <<"u">>,
      <<"n">>,
      <<"&">>,
      <<QUOTE>>,
      <<"x">>,
      <<"0", "0", "4", "1">>,
      <<"/">>,
      <<BS, BS>> }

\* a JSON text with one string value, {"a":"..."}, or the fragments alone
EscInputs ==
    LET bodies == {Flatten(fs) : fs \in SeqsUpTo(EscFrags, MaxEscFrags)}
    IN  {<<"{", QUOTE, "a", QUOTE, ":", QUOTE>> \o b \o <<QUOTE, "}">> : b \in bodies} \cup bodies

InitEscaping ==
    /\ fn = "fixAIJsonEscaping"
    /\ input \in EscInputs
    /\ pc = "scan"
    /\ ExtIdle
    /\ bal = BalInit
    /\ amp = AmpInit
    /\ clean = <<>>
    /\ CiteIdle
    /\ ret = <<>>

\* one pass of the for loop
EscScan ==
    /\ fn = "fixAIJsonEscaping"
    /\ pc = "scan"
    /\ esc.i <= Len(input)
    /\ esc' = EscIter(input, esc)
    /\ UNCHANGED <<fn, pc, input, bal, amp, clean, citeVars, ret,
                   fixed, value, error, patches, patchIdx, currentContent, log, calls, jsonEnd, gen>>

\* return result
EscReturn ==
    /\ fn = "fixAIJsonEscaping"
    /\ pc = "scan"
    /\ esc.i > Len(input)
    /\ ret' = esc.result
    /\ pc' = "done"
    /\ UNCHANGED <<fn, input, bal, amp, clean, citeVars,
                   esc, fixed, value, error, patches, patchIdx, currentContent, log, calls, jsonEnd, gen>>

NextEscaping == EscScan \/ EscReturn

SpecEscaping == InitEscaping /\ [][NextEscaping]_vars

----------------------------------------------------------------------------
(* Claims about fixAIJsonEscaping *)

EscDone == fn = "fixAIJsonEscaping" /\ pc = "done"

\* a backslash at index i of s starts a legal JSON escape: one of " \ / b f n
\* r t behind it, or u and four hexadecimal digits
LegalEscapeAt(s, i) ==
    /\ i < Len(s)
    /\ \/ s[i + 1] \in {QUOTE, BS, "/", "b", "f", "n", "r", "t"}
       \/ /\ s[i + 1] = "u"
          /\ i + 5 <= Len(s)
          /\ \A k \in (i + 2)..(i + 5) : s[k] \in HexDigit

\* one step of the repair the claim has in mind: inside a string literal a
\* backslash that starts no legal escape is doubled, a legal escape is kept
DefectIter(s, st) ==
    LET c == s[st.i]
    IN  IF ~st.inString \/ c # BS
        THEN [i |-> st.i + 1, result |-> Append(st.result, c),
              inString |-> IF c = QUOTE THEN ~st.inString ELSE st.inString,
              escape |-> FALSE]
        ELSE IF LegalEscapeAt(s, st.i)
        THEN [i |-> st.i + 2, result |-> st.result \o <<c, s[st.i + 1]>>,
              inString |-> TRUE, escape |-> FALSE]
        ELSE [i |-> st.i + 1, result |-> st.result \o <<BS, BS>>,
              inString |-> TRUE, escape |-> FALSE]

RECURSIVE DefectSteps(_, _, _)
DefectSteps(s, st, n) ==
    IF n = 0 \/ st.i > Len(s) THEN st
    ELSE IF n = 1 THEN DefectIter(s, st)
    ELSE LET half == DefectSteps(s, st, n \div 2)
         IN  IF half.i > Len(s) THEN half
             ELSE DefectSteps(s, half, n - (n \div 2))

\* the only defect of s is backslashes, inside string literals, that start no
\* legal escape: with each of them doubled, s is JSON
OnlyDefectIsBadEscapes(s) == JSONparse(DefectSteps(s, EscInit, Len(s)).result).ok

\* C13: when the only defect of a JSON text is backslashes inside string
\* literals that start no legal JSON escape, a JSON parser accepts what
\* fixAIJsonEscaping returns.
C13_OutputParses ==
    (EscDone /\ OnlyDefectIsBadEscapes(input)) => JSONparse(ret).ok

----------------------------------------------------------------------------
(* Runs of extractJson *)

\* number of fragments a reply of the model is assembled from
MaxJsonFrags == 3

JsonFrags ==
    { <<"{">>,
      <<"}">>,
      <<"[">>,
      <<"]">>,
      <<QUOTE, "a", QUOTE>>,
      <<":">>,
      <<",">>,
      <<"1">>,
      <<BS>>,
      <<QUOTE>>,
      <<" ">>,
      <<"t", "r", "u", "e">> }

\* JSON objects, well formed
JsonObjects ==
    { <<"{", QUOTE, "f", "o", "u", "n", "d", QUOTE, ":", " ", "f", "a", "l", "s", "e", "}">>,
      <<"{", QUOTE, "a", QUOTE, ":", "[", "1", ",", "{", QUOTE, "b", QUOTE, ":", QUOTE, "}", QUOTE, "}", "]", "}">>,
      <<"{", QUOTE, "c", QUOTE, ":", QUOTE, BS, BS, "b", "e", "g", "i", "n", QUOTE, "}">> }

\* what a reply holds between its prose: objects, arrays, texts with bad
\* escapes, truncated texts, bare properties, primitives
JsonCores ==
    JsonObjects \cup
    { <<"{", QUOTE, "c", QUOTE, ":", QUOTE, BS, "i", "t", "e", "m", QUOTE, "}">>,
      <<"{", QUOTE, "c", QUOTE, ":", QUOTE, BS, "u", "p", QUOTE, "}">>,
      <<"[", "1", ",", " ", "2", "]">>,
      <<"[", "{", QUOTE, "a", QUOTE, ":", "1", "}", "]">>,
      <<"[", QUOTE, "x", QUOTE, ",", " ", "t", "r", "u", "e", ",", " ", "n", "u", "l", "l", ",", " ", "-", "1", ".", "5", "e", "3", "]">>,
      <<"{", QUOTE, "a", QUOTE, ":">>,
      <<"{", QUOTE, "a", QUOTE, ":", QUOTE, "x">>,
      <<"{", QUOTE, "a", QUOTE, ":", "1">>,
      <<"[", "1", ",">>,
      <<"{">>,
      <<"[", "t", "r", "u">>,
      <<QUOTE, "f", "o", "u", "n", "d", QUOTE, ":", " ", "f", "a", "l", "s", "e">>,
      <<QUOTE, "a", QUOTE, ":", " ", "{", QUOTE, "b", QUOTE, ":", "1", "}">>,
      <<QUOTE, "k", QUOTE, ":", " ", QUOTE, "v", BS, "&", QUOTE>>,
      <<"4", "2">>,
      <<"t", "r", "u", "e">>,
      <<QUOTE, "s", QUOTE>>,
      <<>> }

\* prose before and after the structure, with and without a fence
JsonBefore ==
    { <<>>,
      <<"H", "e", "r", "e", " ", "i", "s", " ", "t", "h", "e", " ", "c", "o", "n", "t", "e", "n", "t", ":", " ">>,
      <<"S", "e", "e", " ", "[", "1", "]", ":", " ">>,
      <<BACKTICK, BACKTICK, BACKTICK, "j", "s", "o", "n", NL>>,
      <<"S", "u", "r", "e", ":", NL, BACKTICK, BACKTICK, BACKTICK, NL>> }
JsonAfter ==
    { <<>>,
      <<" ", "o", "k">>,
      <<NL, BACKTICK, BACKTICK, BACKTICK>>,
      <<NL, BACKTICK, BACKTICK, BACKTICK, NL, "D", "o", "n", "e", ".">> }

\* {"content": "..."} around a string body
ContentObject(body) == <<"{", QUOTE, "c", "o", "n", "t", "e", "n", "t", QUOTE, ":", " ", QUOTE>> \o body \o <<QUOTE, "}">>

\* a backslash, a letter and more, not escaped for JSON
LetterBodies ==
    {<<BS, l, "x">> : l \in Lower} \cup { <<BS, "b", "e", "g", "i", "n", "{", "i", "t", "e", "m", "i", "z", "e", "}">> }

\* a candidate longer than the preview of an error message
LongText == [k \in 1..(PreviewLen + 1) |-> IF k = 1 THEN "[" ELSE "x"]

JsonInputs ==
    {Flatten(fs) : fs \in SeqsUpTo(JsonFrags, MaxJsonFrags)}
        \cup {b \o c \o a : b \in JsonBefore, c \in JsonCores, a \in JsonAfter}
        \cup {ContentObject(b) : b \in LetterBodies}
        \cup {LongText}

InitJson ==
    /\ ExtIdle
    /\ fn = "extractJson"
    /\ input \in JsonInputs
    /\ pc = "strip"
    /\ clean = <<>>
    /\ bal = BalInit
    /\ amp = AmpInit
    /\ CiteIdle
    /\ ret = <<>>

JsonFrame == <<fn, input, bal, amp, citeVars, ret, esc, patches, patchIdx, currentContent, log, calls, jsonEnd, gen>>

\* 1. remove markdown fences
JsonStrip ==
    /\ fn = "extractJson"
    /\ pc = "strip"
    /\ clean' = StripFences(input)
    /\ pc' = "locate"
    /\ UNCHANGED <<JsonFrame, fixed, value, error>>

\* 2. neither '{' nor '[': throw
JsonNoStructure ==
    /\ fn = "extractJson"
    /\ pc = "locate"
    /\ FindStructure(clean).start = 0
    /\ error' = NoStructureFound(clean)
    /\ pc' = "thrown"
    /\ UNCHANGED <<JsonFrame, clean, fixed, value>>

\* 2. cut the candidate out
JsonLocate ==
    /\ fn = "extractJson"
    /\ pc = "locate"
    /\ FindStructure(clean).start # 0
    /\ clean' = Candidate(clean, FindStructure(clean))
    /\ pc' = "parse"
    /\ UNCHANGED <<JsonFrame, fixed, value, error>>

\* the legacy order: the escapes fixed before the first parse
JsonDirectFixFirst ==
    /\ fn = "extractJson"
    /\ pc = "parse"
    /\ LET first(r) ==
               /\ r.ok
               /\ value' = r.val
       IN  first(JSONparse(fixAIJsonEscaping(clean)))
    /\ pc' = "returned"
    /\ UNCHANGED <<JsonFrame, clean, fixed, error>>

\* 3. return JSON.parse(clean)
JsonDirect ==
    /\ fn = "extractJson"
    /\ pc = "parse"
    /\ LET first(r) ==
               /\ r.ok
               /\ value' = r.val
       IN  first(JSONparse(clean))
    /\ pc' = "returned"
    /\ UNCHANGED <<JsonFrame, clean, fixed, error>>

\* the first catch block: the wrapped retry, then fixAIJsonEscaping
JsonCatch ==
    /\ fn = "extractJson"
    /\ pc = "parse"
    /\ LET first(e) ==
               /\ ~e.ok
               /\ IF WrapAfterDirect(e.msg, clean) /\ JSONparse(Wrapped(clean)).ok
                  THEN /\ value' = JSONparse(Wrapped(clean)).val
                       /\ pc' = "returned"
                       /\ UNCHANGED fixed
                  ELSE /\ fixed' = fixAIJsonEscaping(clean)
                       /\ pc' = "retry"
                       /\ UNCHANGED value
       IN  first(JSONparse(clean))
    /\ UNCHANGED <<JsonFrame, clean, error>>

\* the parse of the fixed text, the second catch block and its throw
JsonRetry ==
    /\ fn = "extractJson"
    /\ pc = "retry"
    /\ LET second(e2) ==
               IF e2.ok
               THEN value' = e2.val /\ pc' = "returned" /\ UNCHANGED error
               ELSE IF LooksLikeProperty(fixed) /\ JSONparse(Wrapped(fixed)).ok
               THEN value' = JSONparse(Wrapped(fixed)).val /\ pc' = "returned"
                    /\ UNCHANGED error
               ELSE /\ error' = IF isTruncated(e2.msg) THEN TruncatedOutput
                                ELSE MalformedJson(e2.msg, clean)
                    /\ pc' = "thrown"
                    /\ UNCHANGED value
       IN  second(JSONparse(fixed))
    /\ UNCHANGED <<JsonFrame, clean, fixed>>

NextJson ==
    JsonStrip \/ JsonNoStructure \/ JsonLocate \/ JsonDirect \/ JsonCatch \/ JsonRetry

SpecJson == InitJson /\ [][NextJson]_vars

----------------------------------------------------------------------------
(* Claims about extractJson *)

JsonFinished == fn = "extractJson" /\ pc \in {"returned", "thrown"}

\* C12: for {"content": "..."} whose string holds a backslash, not escaped, and
\* a letter behind it, extractJson returns an object whose string holds the
\* same backslash and letter, whatever the letter.
C12_BackslashLetterSurvives ==
    \A body \in LetterBodies :
        (JsonFinished /\ input = ContentObject(body)) =>
            /\ pc = "returned"
            /\ value = JVal("object", <<>>,
                            <<[key |-> <<"c", "o", "n", "t", "e", "n", "t">>, val |-> JVal("string", body, <<>>)]>>)

\* the structure extractJson looks for first: "{" when the text has one and no
\* "[" before it, "[" otherwise
EarlierStructure(text) ==
    LET firstBrace == FindChar(text, 1, "{")
        firstBracket == FindChar(text, 1, "[")
    IN  IF firstBrace # 0 /\ (firstBracket = 0 \/ firstBrace < firstBracket)
        THEN "object" ELSE "array"

\* C14: a value extractJson returns is an object when the first "{" of the
\* text without its fences comes before the first "[", an array otherwise; it
\* is never a string, a number, a boolean or null.
C14_ObjectOrArray ==
    (fn = "extractJson" /\ pc = "returned") =>
        value.t = EarlierStructure(StripFences(input))

\* an array whose first element is an object was returned as an array
C14_Witness ==
    /\ fn = "extractJson"
    /\ pc = "returned"
    /\ input = <<"[", "{", QUOTE, "a", QUOTE, ":", "1", "}", "]">>
    /\ value.t = "array"
    /\ Len(value.kids) = 1
    /\ value.kids[1].t = "object"

\* C15: for a text that holds one JSON object with prose before and after it,
\* fenced or not, extractJson returns what the object parses to, whatever the
\* prose is.
C15_ProseDoesNotMatter ==
    \A b \in JsonBefore, obj \in JsonObjects, a \in JsonAfter :
        (JsonFinished /\ input = b \o obj \o a) =>
            /\ pc = "returned"
            /\ value = JSONparse(obj).val

\* C16: a failing call throws one of three errors: NoStructureFound exactly
\* when the text without its fences holds neither "{" nor "["; otherwise
\* TruncatedOutput when the message of the last parse tells the end of the
\* input or an unterminated string; otherwise MalformedJson with that message
\* and the last 200 characters of the candidate, at most.
C16_ErrorKinds ==
    (fn = "extractJson" /\ pc = "thrown") =>
        LET text == StripFences(input)
            none == FindChar(text, 1, "{") = 0 /\ FindChar(text, 1, "[") = 0
            last == JSONparse(fixed).msg
        IN  /\ error.kind \in {"No JSON object or array found", "AI_OUTPUT_TRUNCATED",
                               "Failed to parse JSON"}
            /\ error.kind = "No JSON object or array found" <=> none
            /\ ~none =>
                 IF last \in {Msg.endOfInput, Msg.unterminated}
                 THEN error.kind = "AI_OUTPUT_TRUNCATED"
                 ELSE /\ error.kind = "Failed to parse JSON"
                      /\ error.msg = last
                      /\ Len(error.preview) <= 200
                      /\ Len(error.preview) = IF Len(clean) < 200 THEN Len(clean) ELSE 200
                      /\ error.preview = SubSeq(clean, Len(clean) - Len(error.preview) + 1,
                                                Len(clean))

\* a reply cut inside a string literal was reported as truncated
C16_Witness ==
    /\ fn = "extractJson"
    /\ pc = "thrown"
    /\ input = <<"{", QUOTE, "a", QUOTE, ":", QUOTE, "x">>
    /\ JSONparse(fixed).msg = Msg.unterminated
    /\ error = TruncatedOutput

\* C17: a reply that is a bare "key": value property, without braces, is
\* wrapped in braces and parsed: extractJson returns the object {key: value}.
C17_BarePropertyWrapped ==
    (JsonFinished /\ LooksLikeProperty(StripFences(input))
                  /\ JSONparse(Wrapped(StripFences(input))).ok) =>
        /\ pc = "returned"
        /\ value = JSONparse(Wrapped(StripFences(input))).val

----------------------------------------------------------------------------
(* Runs of applyPatches *)

\* number of patches of a list
MaxPatches == 2

PatchContents ==
    { <<"x", " ", "y", " ", "x", " ", "y">>,
      <<"a", " ", " ", "b">>,
      <<"f", "(", "x", ")", NL, "y">>,
      <<"p", " ", "q">>,
      <<"a", "x", "b">> }

PatchSet ==
    { [original |-> <<"x", " ", "y">>, new |-> <<"z">>],
      [original |-> <<"z">>, new |-> <<"x", " ", "y">>],
      [original |-> <<"a", " ", "b">>, new |-> <<"*", "*", "c", "*", "*">>],
      [original |-> <<"q">>, new |-> <<"$", "$">>],
      [original |-> <<"n", "o", "p", "e">>, new |-> <<"w">>],
      [original |-> <<"f", "(", "x", ")", " ", "y">>, new |-> <<"g">>],
      [original |-> <<"p">>, new |-> <<">", " ", "t", NL, "u">>],
      [original |-> <<"a", ".", "b">>, new |-> <<"w">>],
      [original |-> <<" ", " ", "y">>, new |-> <<"k">>] }

InitPatch ==
    /\ fn = "applyPatches"
    /\ input \in PatchContents
    /\ patches \in SeqsUpTo(PatchSet, MaxPatches)
    /\ patchIdx = 1
    /\ currentContent = input
    /\ log = <<>>
    /\ calls = <<>>
    /\ jsonEnd = EndInit(1)
    /\ gen = GenIdle
    /\ pc = "loop"
    /\ esc = EscInit
    /\ fixed = <<>>
    /\ value = JNone
    /\ error = NoError
    /\ bal = BalInit
    /\ amp = AmpInit
    /\ clean = <<>>
    /\ CiteIdle
    /\ ret = <<>>

PatchFrame == <<fn, input, bal, amp, citeVars, clean, esc, fixed, value, error, patches, calls, jsonEnd, gen>>

\* fuzzyPatternStr of the patch in turn
FuzzyPattern == FuzzyPatternStr(EscapeRegex(patches[patchIdx].original))

\* 1. Try Exact Match First
PatchExact ==
    /\ fn = "applyPatches"
    /\ pc = "loop"
    /\ patchIdx <= Len(patches)
    /\ Includes(currentContent, patches[patchIdx].original)
    /\ currentContent' = ReplaceFirstString(currentContent, patches[patchIdx].original,
                                            sanitizeLatexOutput(patches[patchIdx].new))
    /\ log' = Append(log, LogLine("exact", patches[patchIdx].original, 30))
    /\ patchIdx' = patchIdx + 1
    /\ UNCHANGED <<PatchFrame, pc, ret>>

\* 2. Fuzzy Match (Normalize whitespace)
PatchFuzzy ==
    /\ fn = "applyPatches"
    /\ pc = "loop"
    /\ patchIdx <= Len(patches)
    /\ ~Includes(currentContent, patches[patchIdx].original)
    /\ RegExpExec(FuzzyPattern, currentContent).index # 0
    /\ currentContent' = ReplaceFirstRegExp(currentContent, FuzzyPattern,
                                            patches[patchIdx].new)
    /\ log' = Append(log, LogLine("fuzzy", patches[patchIdx].original, 30))
    /\ patchIdx' = patchIdx + 1
    /\ UNCHANGED <<PatchFrame, pc, ret>>

\* a miss that ends the loop
PatchMissAbort ==
    /\ fn = "applyPatches"
    /\ pc = "loop"
    /\ patchIdx <= Len(patches)
    /\ ~Includes(currentContent, patches[patchIdx].original)
    /\ RegExpExec(FuzzyPattern, currentContent).index = 0
    /\ log' = Append(log, LogLine("warn", patches[patchIdx].original, 50))
    /\ ret' = currentContent
    /\ pc' = "done"
    /\ UNCHANGED <<PatchFrame, currentContent, patchIdx>>

\* the else branch: a warning, and the loop goes on
PatchMiss ==
    /\ fn = "applyPatches"
    /\ pc = "loop"
    /\ patchIdx <= Len(patches)
    /\ ~Includes(currentContent, patches[patchIdx].original)
    /\ RegExpExec(FuzzyPattern, currentContent).index = 0
    /\ log' = Append(log, LogLine("warn", patches[patchIdx].original, 50))
    /\ patchIdx' = patchIdx + 1
    /\ UNCHANGED <<PatchFrame, currentContent, pc, ret>>

\* return currentContent
PatchReturn ==
    /\ fn = "applyPatches"
    /\ pc = "loop"
    /\ patchIdx > Len(patches)
    /\ ret' = currentContent
    /\ pc' = "done"
    /\ UNCHANGED <<PatchFrame, currentContent, patchIdx, log>>

NextPatch == PatchExact \/ PatchFuzzy \/ PatchMiss \/ PatchReturn

SpecPatch == InitPatch /\ [][NextPatch]_vars

----------------------------------------------------------------------------
(* Claims about applyPatches *)

PatchDone == fn = "applyPatches" /\ pc = "done"

\* the loop is about to handle a patch
PatchInTurn == fn = "applyPatches" /\ pc = "loop" /\ patchIdx <= Len(patches)

\* the indices at which doc holds text
Occurrences(doc, text) ==
    {i \in 1..(Len(doc) + 1) : HasPrefixAt(doc, i, text)}

\* s with every run of white space made one space
Collapse(s) ==
    ReplaceAll(s, [i \in 1..Len(s) |->
        IF s[i] \in Space THEN [len |-> SkipSpace(s, i) - i, rep |-> <<" ">>] ELSE NoRep])

\* the spans <<i, j>> of doc that are text but for the length of their runs
\* of white space
FuzzySpans(doc, text) ==
    {sp \in (1..(Len(doc) + 1)) \X (0..Len(doc)) :
        /\ sp[1] <= sp[2]
        /\ Collapse(SubSeq(doc, sp[1], sp[2])) = Collapse(text)
        /\ (doc[sp[1]] \in Space) = (text[1] \in Space)
        /\ (doc[sp[2]] \in Space) = (text[Len(text)] \in Space)}

\* the span a patch with this original text is to replace: the first exact
\* occurrence, else the first fuzzy match, the longest that starts there
TargetSpan(doc, text) ==
    LET occ == Occurrences(doc, text)
        fz == FuzzySpans(doc, text)
    IN  IF occ # {}
        THEN LET i == CHOOSE i \in occ : \A m \in occ : i <= m
             IN  [found |-> TRUE, from |-> i, to |-> i + Len(text) - 1]
        ELSE IF fz # {}
        THEN LET sp == CHOOSE sp \in fz :
                          \A o \in fz : sp[1] < o[1] \/ (sp[1] = o[1] /\ sp[2] >= o[2])
             IN  [found |-> TRUE, from |-> sp[1], to |-> sp[2]]
        ELSE [found |-> FALSE, from |-> 0, to |-> 0]

\* after is before with the span from..to replaced by something
OneSpanReplaced(before, after, from, to) ==
    LET tail == Len(before) - to
    IN  /\ Len(after) >= (from - 1) + tail
        /\ SubSeq(after, 1, from - 1) = SubSeq(before, 1, from - 1)
        /\ SubSeq(after, Len(after) - tail + 1, Len(after))
             = SubSeq(before, to + 1, Len(before))

\* C18: a patch whose original text is found in the document neither exactly
\* nor with its white space runs changed leaves the document as it is and does
\* not end the loop: the next patch of the list is in turn, and applyPatches
\* returns only once every patch of the list has been tried.
C18_MissSkipsAndContinues ==
    [][ /\ (PatchInTurn /\ ~TargetSpan(currentContent, patches[patchIdx].original).found)
            => /\ currentContent' = currentContent
               /\ pc' = "loop"
               /\ patchIdx' = patchIdx + 1
               /\ patches' = patches
               /\ Last(log').kind = "warn"
        /\ (fn = "applyPatches" /\ pc' = "done")
            => /\ patchIdx' = Len(patches) + 1
               /\ Len(log') = Len(patches)
               /\ ret' = currentContent ]_vars

\* a miss, and the patch behind it applied
C18_Witness ==
    /\ PatchDone
    /\ Len(log) = 2
    /\ log[1].kind = "warn"
    /\ log[2].kind = "exact"
    /\ ret # input

\* C19: the text a patch puts into the document, on an exact match and on a
\* fuzzy match alike, is what sanitizeLatexOutput returns for the patch's new
\* text.
C19_SubstitutedTextIsSanitized ==
    [][ (PatchInTurn /\ TargetSpan(currentContent, patches[patchIdx].original).found)
            => LET span == TargetSpan(currentContent, patches[patchIdx].original)
               IN  currentContent' =
                       SubSeq(currentContent, 1, span.from - 1)
                       \o sanitizeLatexOutput(patches[patchIdx].new)
                       \o SubSeq(currentContent, span.to + 1, Len(currentContent)) ]_vars

\* C20: the patches are handled in the order of the list, one in each pass;
\* a pass replaces one span at most, the first exact occurrence of the
\* original text or else its first fuzzy match, in the document as the passes
\* before left it.
C20_InOrderOneSpanEach ==
    [][ /\ (fn = "applyPatches" /\ pc = "loop" /\ patchIdx = 1) => currentContent = input
        /\ PatchInTurn
            => LET original == patches[patchIdx].original
                   span == TargetSpan(currentContent, original)
               IN  /\ patchIdx' = patchIdx + 1
                   /\ patches' = patches
                   /\ Len(log') = patchIdx
                   /\ Last(log').text = SubSeq(original, 1, Len(Last(log').text))
                   /\ IF span.found
                      THEN /\ Last(log').kind \in {"exact", "fuzzy"}
                           /\ Last(log').kind = "exact" <=> Occurrences(currentContent, original) # {}
                           /\ OneSpanReplaced(currentContent, currentContent', span.from, span.to)
                      ELSE currentContent' = currentContent ]_vars

\* the second patch matched what the first one had put in, and one of the two
\* occurrences of the first patch's text was left
C20_Witness ==
    /\ PatchDone
    /\ input = <<"x", " ", "y", " ", "x", " ", "y">>
    /\ patches = <<[original |-> <<"x", " ", "y">>, new |-> <<"z">>], [original |-> <<"z">>, new |-> <<"x", " ", "y">>]>>
    /\ log = <<LogLine("exact", <<"x", " ", "y">>, 30), LogLine("exact", <<"z">>, 30)>>
    /\ ret = input

----------------------------------------------------------------------------
(* Runs of sanitizeLatexOutput *)

\* number of fragments a field text is assembled from
MaxSanFrags == 3

SanFrags ==
    { <<"A", "b", "s", "t", "r", "a", "c", "t", ":", " ">>,
      <<"T", "i", "t", "l", "e", ":", " ">>,
      <<"H", "e", "r", "e", " ", "i", "s", " ", "t", "h", "e", " ", "c", "o", "n", "t", "e", "n", "t", ":", " ">>,
      <<BS, "c", "h", "e", "c", "k", "m", "a", "r", "k">>,
      <<BS, "t", "h", "e", "t", "a">>,
      <<"$">>,
      <<"x">>,
      <<" ">>,
      <<NL>>,
      <<">", " ", "q">>,
      <<"*", "*", "b", "*", "*">>,
      <<"#", " ", "H">>,
      <<BS, "s", "m", "a", "l", "l", "t", "r", "i", "a", "n", "g", "l", "e", "u", "p">>,
      <<"_", "t">> }

SanInputs == {Flatten(fs) : fs \in SeqsUpTo(SanFrags, MaxSanFrags)}

InitSanitize ==
    /\ ExtIdle
    /\ fn = "sanitizeLatexOutput"
    /\ input \in SanInputs
    /\ pc = "first"
    /\ clean = <<>>
    /\ bal = BalInit
    /\ amp = AmpInit
    /\ CiteIdle
    /\ ret = <<>>

\* a call on the field text
SanFirst ==
    /\ fn = "sanitizeLatexOutput"
    /\ pc = "first"
    /\ clean' = sanitizeLatexOutput(input)
    /\ pc' = "again"
    /\ UNCHANGED <<extVars, fn, input, bal, amp, citeVars, ret>>

\* a call on what the first call returned
SanAgain ==
    /\ fn = "sanitizeLatexOutput"
    /\ pc = "again"
    /\ ret' = sanitizeLatexOutput(clean)
    /\ pc' = "done"
    /\ UNCHANGED <<extVars, fn, input, bal, amp, citeVars, clean>>

NextSanitize == SanFirst \/ SanAgain

SpecSanitize == InitSanitize /\ [][NextSanitize]_vars

----------------------------------------------------------------------------
(* Claims about sanitizeLatexOutput *)

SanDone == fn = "sanitizeLatexOutput" /\ pc = "done"

\* C21: sanitizeLatexOutput is idempotent: run on its own output it returns
\* that output, for every field text, stacked labels and lead-ins and the
\* symbol commands it wraps in math delimiters included.
C21_Idempotent == SanDone => ret = clean

----------------------------------------------------------------------------
(* The transforms as functions of their arguments *)

\* the body of the for-of loop of applyPatches: what one patch does to the
\* document
ApplyPatch(cur, patch) ==
    IF Includes(cur, patch.original)
    THEN ReplaceFirstString(cur, patch.original, sanitizeLatexOutput(patch.new))
    ELSE LET fuzzy(pattern) ==
                 IF RegExpExec(pattern, cur).index # 0
                 THEN ReplaceFirstRegExp(cur, pattern, patch.new)
                 ELSE cur
         IN  fuzzy(FuzzyPatternStr(EscapeRegex(patch.original)))

RECURSIVE ApplyFrom(_, _, _)
ApplyFrom(cur, list, k) ==
    IF k > Len(list) THEN cur
    ELSE ApplyFrom(ApplyPatch(cur, list[k]), list, k + 1)

applyPatches(content, list) == ApplyFrom(content, list, 1)

Returned(val) == [value |-> val, error |-> NoError]
Thrown(err) == [value |-> JNone, error |-> err]

\* the second try block of extractJson and its catch
ExtractRetry(cand, fx, e2) ==
    IF e2.ok THEN Returned(e2.val)
    ELSE IF LooksLikeProperty(fx) /\ JSONparse(Wrapped(fx)).ok
    THEN Returned(JSONparse(Wrapped(fx)).val)
    ELSE Thrown(IF isTruncated(e2.msg) THEN TruncatedOutput
                ELSE MalformedJson(e2.msg, cand))

ExtractFixed(cand, fx) == ExtractRetry(cand, fx, JSONparse(fx))

\* the first try block of extractJson and its catch
ExtractParsed(cand, r) ==
    IF r.ok THEN Returned(r.val)
    ELSE IF WrapAfterDirect(r.msg, cand) /\ JSONparse(Wrapped(cand)).ok
    THEN Returned(JSONparse(Wrapped(cand)).val)
    ELSE ExtractFixed(cand, fixAIJsonEscaping(cand))

ExtractCandidate(cand) == ExtractParsed(cand, JSONparse(cand))

ExtractLocated(stripped, loc) ==
    IF loc.start = 0 THEN Thrown(NoStructureFound(stripped))
    ELSE ExtractCandidate(Candidate(stripped, loc))

ExtractStripped(stripped) == ExtractLocated(stripped, FindStructure(stripped))

\* the value extractJson returns, or the error it throws
extractJson(text) == ExtractStripped(StripFences(text))

\* a text is worked out before the next stage starts on it
Settled(s) == Len(s) >= 0

\* 10. math mode repair, and the return
AfterBalance(text) ==
    IF Settled(text) THEN MathRepairPass(text) ELSE <<>>

\* 9. balance fixer
AfterOrphanBackticks(text) ==
    IF Settled(text) THEN AfterBalance(fixLatexBalance(text)) ELSE <<>>

\* 8. orphan backtick fix
AfterBackticks(text) ==
    IF Settled(text) THEN AfterOrphanBackticks(OrphanBacktickPass(text)) ELSE <<>>

\* 7. backtick fix
AfterAmpersands(text) ==
    IF Settled(text) THEN AfterBackticks(BacktickPass(text)) ELSE <<>>

\* 6. context-aware ampersand sanitization
AfterPlacement(text) ==
    IF Settled(text) THEN AfterAmpersands(escapeTextAmpersands(text)) ELSE <<>>

\* 5. placement enforcement
AfterPackages(text) ==
    IF Settled(text) THEN AfterPlacement(PlacementPass(text)) ELSE <<>>

\* 4. package injection
AfterTextMode(text) ==
    IF Settled(text) THEN AfterPackages(PackagePass(text)) ELSE <<>>

\* 3. algorithm text mode fix
AfterAlgorithm(text) ==
    IF Settled(text) THEN AfterTextMode(TextModePass(text)) ELSE <<>>

\* 2. algorithm package fix
AfterRefs(text) ==
    IF Settled(text) THEN AfterAlgorithm(AlgorithmPass(text)) ELSE <<>>

\* 1. safety net for orphaned markers
AfterSplitter(text) ==
    IF Settled(text) THEN AfterRefs(RefEscapePass(text)) ELSE <<>>

\* the eleven stages of sanitizeLatexForExport, in the order of the code: each
\* works on the text the stage before it has returned
sanitizeLatexForExport(latex) ==
    IF latex = <<>> THEN <<>>
    ELSE AfterSplitter(SplitterPass(latex))

----------------------------------------------------------------------------
(* Calls that run side by side *)

\* number of calls in progress at one time
MaxCalls == 2

Transforms ==
    { "fixAIJsonEscaping", "extractJson", "sanitizeLatexOutput",
      "sanitizeLatexForExport", "fixLatexBalance", "compileCitations",
      "applyPatches" }

Args(f, t, ps, ks) == [fn |-> f, text |-> t, patches |-> ps, keys |-> ks]

TextArgs(f, texts) == {Args(f, t, <<>>, {}) : t \in texts}

CallArgs ==
    TextArgs("fixAIJsonEscaping", {<<QUOTE, BS, "a", QUOTE>>})
    \cup TextArgs("extractJson", {<<"{", QUOTE, "a", QUOTE, ":", "1", "}">>})
    \cup TextArgs("sanitizeLatexOutput", {<<BS, "c", "h", "e", "c", "k", "m", "a", "r", "k">>})
    \cup TextArgs("sanitizeLatexForExport", {<<"&">>})
    \cup TextArgs("fixLatexBalance", {<<"{", "x">>, <<BS, "b", "e", "g", "i", "n", "{", "a", "}", "}">>})
    \cup { Args("compileCitations", <<"(">> \o REF1 \o <<")">>, <<>>, {REF1}) }
    \cup { Args("applyPatches", <<"a", " ", " ", "b">>,
                <<[original |-> <<"n", "o", "p", "e">>, new |-> <<"w">>],
                  [original |-> <<"a", " ", "b">>, new |-> <<"*", "*", "c", "*", "*">>]>>, {}) }

\* the function run alone on its arguments
Alone(a) ==
    CASE a.fn = "fixAIJsonEscaping" -> fixAIJsonEscaping(a.text)
      [] a.fn = "extractJson" -> extractJson(a.text)
      [] a.fn = "sanitizeLatexOutput" -> sanitizeLatexOutput(a.text)
      [] a.fn = "sanitizeLatexForExport" -> sanitizeLatexForExport(a.text)
      [] a.fn = "fixLatexBalance" -> fixLatexBalance(a.text)
      [] a.fn = "compileCitations" -> compileCitations(a.text, a.keys)
      [] a.fn = "applyPatches" -> applyPatches(a.text, a.patches)

\* the locals a call starts with: every one of them is declared inside the
\* function body
StartLocals(a) ==
    CASE a.fn = "fixAIJsonEscaping" -> EscInit
      [] a.fn = "fixLatexBalance" -> BalInit
      [] a.fn = "applyPatches" -> [idx |-> 1, currentContent |-> a.text]
      [] OTHER -> [idx |-> 1]

\* a call: the arguments as the call sees them, its locals, whether it has
\* returned, and what it returned
StartCall(a) == [arg |-> a, st |-> StartLocals(a), pc |-> "run", out |-> <<>>]

Return(c, val) == [c EXCEPT !.pc = "done", !.out = val]

\* one step of a call: one pass of the loop for the three functions built on
\* a loop, the whole body for the others.  A step reads the arguments and the
\* locals of its own call and writes the locals only.
CallStep(c) ==
    CASE c.arg.fn = "fixAIJsonEscaping" ->
            IF c.st.i <= Len(c.arg.text)
            THEN [c EXCEPT !.st = EscIter(c.arg.text, c.st)]
            ELSE Return(c, c.st.result)
      [] c.arg.fn = "fixLatexBalance" ->
            IF c.st.i <= Len(c.arg.text)
            THEN [c EXCEPT !.st = BalIter(c.arg.text, c.st)]
            ELSE Return(c, FinalCleanup(c.st).result)
      [] c.arg.fn = "applyPatches" ->
            IF c.st.idx <= Len(c.arg.patches)
            THEN [c EXCEPT !.st = [idx |-> c.st.idx + 1,
                                   currentContent |->
                                       ApplyPatch(c.st.currentContent,
                                                  c.arg.patches[c.st.idx])]]
            ELSE Return(c, c.st.currentContent)
      [] OTHER -> Return(c, Alone(c.arg))

\* the locals kept in one place for all the calls of a function
AdvanceShared(cs, k) ==
    LET shared(stepped) ==
            [j \in 1..Len(cs) |->
                IF j = k THEN stepped
                ELSE IF cs[j].arg.fn = cs[k].arg.fn /\ cs[j].pc = "run"
                THEN [cs[j] EXCEPT !.st = stepped.st]
                ELSE cs[j]]
    IN  shared(CallStep(cs[k]))

\* call k takes a step: nothing of another call is touched
Advance(cs, k) == [cs EXCEPT ![k] = CallStep(cs[k])]

Runs == {"sideBySide", "inTurn"}

\* input holds the arguments the caller passed.  calls holds two runs of the
\* same calls: first the calls are run one at a time, each starting when the
\* call before it has returned; then they are run again with their steps
\* taken in any order.
InitCalls ==
    /\ fn = "calls"
    /\ pc = "inTurn"
    /\ \E given \in [1..MaxCalls -> CallArgs] :
           /\ input = given
           /\ calls = [run \in Runs |-> [k \in 1..MaxCalls |-> StartCall(given[k])]]
    /\ esc = EscInit
    /\ fixed = <<>>
    /\ value = JNone
    /\ error = NoError
    /\ patches = <<>>
    /\ patchIdx = 1
    /\ currentContent = <<>>
    /\ log = <<>>
    /\ jsonEnd = EndInit(1)
    /\ gen = GenIdle
    /\ bal = BalInit
    /\ amp = AmpInit
    /\ clean = <<>>
    /\ CiteIdle
    /\ ret = <<>>

AllReturned(cs) == \A k \in 1..Len(cs) : cs[k].pc = "done"

\* call k of the run in progress may take a step
MayStep(k) ==
    /\ calls[pc][k].pc = "run"
    /\ pc = "inTurn" => \A j \in 1..(k - 1) : calls[pc][j].pc = "done"

\* a call that has not returned takes its next step
CallAdvance ==
    /\ fn = "calls"
    /\ pc \in Runs
    /\ \E k \in 1..MaxCalls :
           /\ MayStep(k)
           /\ calls' = [calls EXCEPT ![pc] = Advance(calls[pc], k)]
    /\ pc' = IF pc = "inTurn" /\ AllReturned(calls'.inTurn) THEN "sideBySide" ELSE pc
    /\ UNCHANGED <<fn, input, bal, amp, clean, citeVars, ret,
                   esc, fixed, value, error, patches, patchIdx, currentContent, log,
                   jsonEnd, gen>>

NextCalls == CallAdvance

SpecCalls == InitCalls /\ [][NextCalls]_vars

----------------------------------------------------------------------------
(* Claims about calls that run side by side *)

----------------------------------------------------------------------------
(* Runs of the four scanners *)

\* number of fragments an input of a scanner is assembled from
MaxScanFrags == 2

Scanners ==
    { "fixAIJsonEscaping", "findBalancedJsonEnd", "escapeTextAmpersands",
      "fixLatexBalance" }

\* the fragments hold what can leave a scanner in the middle of something: a
\* verbatim command whose argument is not closed, a comment with no line end,
\* environment markers with no partner, a backslash at the end of the text, a
\* string with no closing quote
ScanFrags(f) ==
    CASE f = "fixLatexBalance" ->
            { <<BS, "b", "e", "g", "i", "n", "{", "a", "}">>,
              <<BS, "e", "n", "d", "{", "a", "}">>,
              <<BS, "e", "n", "d", "{", "b", "}">>,
              <<"{">>,
              <<"}">>,
              <<BS>>,
              <<"%">>,
              <<NL>>,
              <<"x">> }
      [] f = "escapeTextAmpersands" ->
            { <<"&">>,
              <<BS, "u", "r", "l", "{">>,
              <<BS, "h", "r", "e", "f", "[">>,
              <<"]">>,
              <<"}">>,
              <<"%">>,
              <<NL>>,
              <<BS>>,
              <<BS, "b", "e", "g", "i", "n", "{", "a", "}">>,
              <<BS, "e", "n", "d", "{", "b", "}">> }
      [] f = "fixAIJsonEscaping" ->
            { <<QUOTE>>,
              <<BS>>,
              <<"n">>,
              <<"x">>,
              <<"u">> }
      [] f = "findBalancedJsonEnd" ->
            { <<"{">>,
              <<"}">>,
              <<"[">>,
              <<"]">>,
              <<QUOTE>>,
              <<BS>>,
              <<"x">> }

\* findBalancedJsonEnd is called on the first "{" or "[" of the text, with that
\* character and its partner: its texts start with one of the two
ScanInputs(f) ==
    LET texts == {Flatten(fs) : fs \in SeqsUpTo(ScanFrags(f), MaxScanFrags)}
    IN  IF f = "findBalancedJsonEnd"
        THEN {<<open>> \o t : open \in {"{", "["}, t \in texts}
        ELSE texts

closeOf(openChar) == IF openChar = "{" THEN "}" ELSE "]"

InitScan ==
    /\ fn \in Scanners
    /\ input \in ScanInputs(fn)
    /\ pc = "scan"
    /\ bal = BalInit
    /\ amp = AmpInit
    /\ esc = EscInit
    /\ jsonEnd = EndInit(1)
    /\ gen = GenIdle
    /\ clean = <<>>
    /\ CiteIdle
    /\ ret = <<>>
    /\ fixed = <<>>
    /\ value = JNone
    /\ error = NoError
    /\ patches = <<>>
    /\ patchIdx = 1
    /\ currentContent = <<>>
    /\ log = <<>>
    /\ calls = <<>>

ScanFrame ==
    <<fn, input, bal, amp, clean, citeVars, esc, fixed, value, error, patches,
      patchIdx, currentContent, log, calls, gen>>

\* one pass of  for (let i = startIndex; i < text.length; i++), the return of
\* the index from inside the loop included
EndScan ==
    /\ fn = "findBalancedJsonEnd"
    /\ pc = "scan"
    /\ jsonEnd.i <= Len(input)
    /\ jsonEnd' = EndIter(input, jsonEnd, input[1], closeOf(input[1]))
    /\ IF jsonEnd'.found # 0
       THEN ret' = jsonEnd'.found /\ pc' = "done"
       ELSE UNCHANGED <<ret, pc>>
    /\ UNCHANGED ScanFrame

\* the loop has ended: return -1 (0 here, where the first index is 1)
EndReturn ==
    /\ fn = "findBalancedJsonEnd"
    /\ pc = "scan"
    /\ jsonEnd.i > Len(input)
    /\ ret' = 0
    /\ pc' = "done"
    /\ UNCHANGED <<ScanFrame, jsonEnd>>

NextScan ==
    \/ BalScan \/ BalReturn
    \/ AmpScan \/ AmpReturn
    \/ EscScan \/ EscReturn
    \/ EndScan \/ EndReturn

SpecScan == InitScan /\ [][NextScan]_vars

\* a call runs on until it returns
SpecScanLive == SpecScan /\ WF_vars(NextScan)

----------------------------------------------------------------------------
(* Claims about the four scanners *)

\* the cursor of the scanner that runs
Cursor ==
    CASE fn = "fixLatexBalance" -> bal.i
      [] fn = "escapeTextAmpersands" -> amp.i
      [] fn = "fixAIJsonEscaping" -> esc.i
      [] fn = "findBalancedJsonEnd" -> jsonEnd.i
      [] OTHER -> 0

\* a pass of the loop that does not return moves the cursor forward
ScanAdvances == (pc = "scan" /\ pc' = "scan") => Cursor' >= Cursor + 1

ScanReturned == fn \in Scanners /\ pc = "done"

\* C23: every pass of the loop of fixAIJsonEscaping, findBalancedJsonEnd,
\* escapeTextAmpersands and fixLatexBalance moves the cursor forward by one
\* character at least, and every call returns, on texts with an unclosed
\* verbatim argument, an unclosed comment, unmatched environment markers or a
\* backslash at the end as on any other.
C23_ScannersTerminate == [][ScanAdvances]_vars /\ <>ScanReturned

\* escapeTextAmpersands has returned on a text that ends inside the argument
\* of \url, the ampersand in it untouched
C23_Witness ==
    /\ fn = "escapeTextAmpersands"
    /\ pc = "done"
    /\ input = <<BS, "u", "r", "l", "{", "&">>
    /\ ret = input
    /\ amp.i > Len(input)

----------------------------------------------------------------------------
(* Runs of fixLatexBalance on environment markers *)

\* number of fragments a text of markers is assembled from
MaxCloseFrags == 4

\* three names, so that the frames above a marker's own can differ from one
\* another
CloseFrags ==
    { <<BS, "b", "e", "g", "i", "n", "{", "a", "}">>,
      <<BS, "b", "e", "g", "i", "n", "{", "b", "}">>,
      <<BS, "b", "e", "g", "i", "n", "{", "c", "}">>,
      <<BS, "e", "n", "d", "{", "a", "}">>,
      <<BS, "e", "n", "d", " ", "{", "b", "}">>,
      <<"{">>,
      <<"}">> }

CloseInputs == {Flatten(fs) : fs \in SeqsUpTo(CloseFrags, MaxCloseFrags)}

InitClose ==
    /\ ExtIdle
    /\ fn = "fixLatexBalance"
    /\ input \in CloseInputs
    /\ pc = "scan"
    /\ bal = BalInit
    /\ amp = AmpInit
    /\ clean = <<>>
    /\ CiteIdle
    /\ ret = <<>>

SpecClose == InitClose /\ [][NextBalance]_vars

----------------------------------------------------------------------------
(* Claims about the close markers of fixLatexBalance *)

\* the scan is about to read a close marker
AtCloseMarker ==
    /\ fn = "fixLatexBalance"
    /\ pc = "scan"
    /\ bal.i <= Len(input)
    /\ bal.state = "NORMAL"
    /\ input[bal.i] = BS
    /\ ~MatchEnv(input, bal.i, BEGIN).ok
    /\ MatchEnv(input, bal.i, END).ok

\* its name, and the marker as the text has it
CloseName == MatchEnv(input, bal.i, END).name
CloseTag == SubSeq(input, bal.i, bal.i + MatchEnv(input, bal.i, END).len - 1)

OnStack(name) == \E k \in 1..Len(bal.envStack) : bal.envStack[k] = name

\* the occurrence of the name nearest to the top of the stack
Nearest(name) ==
    CHOOSE k \in 1..Len(bal.envStack) :
        /\ bal.envStack[k] = name
        /\ \A j \in (k + 1)..Len(bal.envStack) : bal.envStack[j] # name

\* \end{F} for the frames above index k, the top one first
ClosersAbove(k) ==
    Flatten([j \in 1..(Len(bal.envStack) - k) |->
                EndTag(bal.envStack[Len(bal.envStack) + 1 - j])])

\* C24: on a close marker \end{N} with N on the stack, the output receives
\* one "}" per unit of brace depth, then \end{F} for every frame F above the
\* nearest occurrence of N, the top one first, then the marker itself; the
\* depth becomes zero and the stack keeps the frames below that occurrence.
C24_CloseMarkerOnStack ==
    [][(AtCloseMarker /\ OnStack(CloseName)) =>
          /\ bal'.result = bal.result \o Closers(bal.braceDepth)
                               \o ClosersAbove(Nearest(CloseName)) \o CloseTag
          /\ bal'.braceDepth = 0
          /\ bal'.envStack = SubSeq(bal.envStack, 1, Nearest(CloseName) - 1)
          /\ bal'.i = bal.i + Len(CloseTag)]_vars

\* \end{a} read with a, b, c on the stack: c and b are closed in that order
C24_Witness ==
    /\ fn = "fixLatexBalance"
    /\ input = <<BS, "b", "e", "g", "i", "n", "{", "a", "}", BS, "b", "e", "g", "i", "n", "{", "b", "}", BS, "b", "e", "g", "i", "n", "{", "c", "}", BS, "e", "n", "d", "{", "a", "}">>
    /\ bal.i = Len(input) + 1
    /\ bal.result = <<BS, "b", "e", "g", "i", "n", "{", "a", "}", BS, "b", "e", "g", "i", "n", "{", "b", "}", BS, "b", "e", "g", "i", "n", "{", "c", "}", BS, "e", "n", "d", "{", "c", "}", BS, "e", "n", "d", "{", "b", "}", BS, "e", "n", "d", "{", "a", "}">>
    /\ bal.envStack = <<>>

\* C25: a close marker \end{N} with N nowhere on the stack, the empty stack
\* included, is copied as it stands: the output grows by the marker and by
\* nothing else, the stack and the brace depth stay as they are.
C25_OrphanCloseCopied ==
    [][(AtCloseMarker /\ ~OnStack(CloseName)) =>
          /\ bal'.result = bal.result \o CloseTag
          /\ bal'.envStack = bal.envStack
          /\ bal'.braceDepth = bal.braceDepth
          /\ bal'.i = bal.i + Len(CloseTag)]_vars

\* \end {b} read with c on the stack and one brace open
C25_Witness ==
    /\ fn = "fixLatexBalance"
    /\ input = <<BS, "b", "e", "g", "i", "n", "{", "c", "}", "{", BS, "e", "n", "d", " ", "{", "b", "}">>
    /\ bal.i = Len(input) + 1
    /\ bal.result = input
    /\ bal.envStack = << <<"c">> >>
    /\ bal.braceDepth = 1

----------------------------------------------------------------------------
(* Claims about the braces, the escapes and the comments of fixLatexBalance *)

\* the scan is about to read a character
BalReading == fn = "fixLatexBalance" /\ pc = "scan" /\ bal.i <= Len(input)

\* the character is copied and the cursor moves past it
BalCopiesChar ==
    /\ bal'.result = Append(bal.result, input[bal.i])
    /\ bal'.i = bal.i + 1

\* a brace read as a structural character
BraceStep ==
    (BalReading /\ bal.state = "NORMAL" /\ input[bal.i] \in {"{", "}"}) =>
        /\ BalCopiesChar
        /\ bal'.envStack = bal.envStack
        /\ bal'.braceDepth =
              IF input[bal.i] = "{" THEN bal.braceDepth + 1
              ELSE IF bal.braceDepth > 0 THEN bal.braceDepth - 1
              ELSE 0

\* C26: the brace depth of fixLatexBalance is never negative; "{" adds one to
\* it, "}" takes one off only when it is positive, and a "}" read at depth
\* zero is copied with the depth left at zero.
C26_DepthNeverNegative ==
    [](fn = "fixLatexBalance" => bal.braceDepth >= 0) /\ [][BraceStep]_vars

\* "}" has been read twice at depth zero, after one pair that matched
C26_Witness ==
    /\ fn = "fixLatexBalance"
    /\ pc = "scan"
    /\ input = <<"{", "}", "}", "}">>
    /\ bal.i = Len(input) + 1
    /\ bal.result = input
    /\ bal.braceDepth = 0

\* the character behind a backslash that starts no marker, or a character of
\* a comment, its "%" included
EscapedOrComment ==
    /\ BalReading
    /\ \/ bal.state \in {"ESCAPE", "COMMENT"}
       \/ bal.state = "NORMAL" /\ input[bal.i] = "%"

\* C27: the character right behind a backslash, and every character of a
\* comment from its "%" to the end of the line, is copied as it stands and
\* leaves the brace depth and the stack alone: a brace or a "%" behind a
\* backslash counts for nothing, and a \begin or an \end in a comment is
\* neither pushed nor popped.
C27_EscapesAndCommentsCopied ==
    [][EscapedOrComment =>
          /\ BalCopiesChar
          /\ bal'.braceDepth = bal.braceDepth
          /\ bal'.envStack = bal.envStack]_vars

\* \{ and then a comment that holds \begin{a}: nothing is counted or pushed
C27_Witness ==
    /\ fn = "fixLatexBalance"
    /\ pc = "scan"
    /\ input = <<BS, "{", "%", BS, "b", "e", "g", "i", "n", "{", "a", "}">>
    /\ bal.i = Len(input) + 1
    /\ bal.result = input
    /\ bal.braceDepth = 0
    /\ bal.envStack = <<>>
    /\ bal.state = "COMMENT"

----------------------------------------------------------------------------
(* Runs of escapeTextAmpersands on environment markers *)

\* number of fragments a text of markers is assembled from
MaxAmpCloseFrags == 3

AmpCloseFrags ==
    { <<BS, "b", "e", "g", "i", "n", "{", "a", "*", "b", "}">>,
      <<BS, "e", "n", "d", "{", "a", "b", "}">>,
      <<BS, "b", "e", "g", "i", "n", "{", "a", "}">>,
      <<BS, "e", "n", "d", "{", "a", "}">>,
      <<BS, "b", "e", "g", "i", "n", "{", "a", "l", "i", "g", "n", "*", "}">>,
      <<BS, "e", "n", "d", "{", "a", "l", "i", "g", "n", "}">>,
      <<BS, "b", "e", "g", "i", "n", "{", "t", "a", "b", "u", "l", "a", "r", "}">>,
      <<"&">> }

AmpCloseInputs == {Flatten(fs) : fs \in SeqsUpTo(AmpCloseFrags, MaxAmpCloseFrags)}

InitAmpClose ==
    /\ ExtIdle
    /\ fn = "escapeTextAmpersands"
    /\ input \in AmpCloseInputs
    /\ pc = "scan"
    /\ bal = BalInit
    /\ amp = AmpInit
    /\ clean = <<>>
    /\ CiteIdle
    /\ ret = <<>>

SpecAmpClose == InitAmpClose /\ [][NextAmp]_vars

----------------------------------------------------------------------------
(* Claims about the close markers of escapeTextAmpersands *)

\* the scan is about to read a close marker
AtAmpClose ==
    /\ fn = "escapeTextAmpersands"
    /\ pc = "scan"
    /\ amp.i <= Len(AmpBody(input))
    /\ AmpBody(input)[amp.i] = BS
    /\ ~MatchEnv(AmpBody(input), amp.i, BEGIN).ok
    /\ MatchEnv(AmpBody(input), amp.i, END).ok

AmpCloseName == MatchEnv(AmpBody(input), amp.i, END).name
AmpCloseTag ==
    SubSeq(AmpBody(input), amp.i,
           amp.i + MatchEnv(AmpBody(input), amp.i, END).len - 1)

\* the two names are one environment, starred or not
SameButStar(a, b) == a = b \/ a = b \o <<"*">> \/ b = a \o <<"*">>

\* the frame on top is to be popped on \end{name}
TopMatches(envStack, name) ==
    /\ envStack # <<>>
    /\ \/ Last(envStack) = name
       \/ SameButStar(Last(envStack), name)
       \/ Last(envStack) \in structuralEnvs

\* C28: a close marker \end{N} of escapeTextAmpersands pops the top frame
\* when the stack is not empty and the top name is N, or N but for the star
\* of a starred variant, or a structural environment, and leaves the stack
\* as it is in every other case; the marker is copied as it stands, and one
\* frame at most is popped.
C28_PopsExactlyOnMatch ==
    [][AtAmpClose =>
          /\ amp'.result = amp.result \o AmpCloseTag
          /\ amp'.i = amp.i + Len(AmpCloseTag)
          /\ amp'.envStack = IF TopMatches(amp.envStack, AmpCloseName)
                             THEN Front(amp.envStack)
                             ELSE amp.envStack]_vars

----------------------------------------------------------------------------
(* Claims about what escapeTextAmpersands copies unread *)

\* x is the index behind the argument that opens at index j of s: behind the
\* closer that brings the nesting back to zero, or behind the end of the text
\* when no closer does
ArgumentEnds(s, j, x, open, close) ==
    \/ /\ j < x /\ x <= Len(s) + 1
       /\ DepthAfter(s, j, x - 1, 0, open, close) = 0
       /\ \A m \in j..(x - 2) : DepthAfter(s, j, m, 0, open, close) > 0
    \/ /\ x = Len(s) + 1
       /\ \A m \in j..Len(s) : DepthAfter(s, j, m, 0, open, close) > 0

\* x is the index behind a verbatim command at index i of s, its optional
\* [..] argument and its {..} argument
VerbatimEnds(s, i, x) ==
    LET e == CmdNameEnd(s, i + 1)
    IN  /\ SubSeq(s, i + 1, e - 1) \in verbatimCmds
        /\ \E a \in e..(Len(s) + 1) :
              /\ IF e <= Len(s) /\ s[e] = "["
                 THEN ArgumentEnds(s, e, a, "[", "]") ELSE a = e
              /\ IF a <= Len(s) /\ s[a] = "{"
                 THEN ArgumentEnds(s, a, x, "{", "}") ELSE x = a

\* x is the index of the line end of the comment that opens at index i
CommentEnds(s, i, x) ==
    /\ i < x /\ x <= Len(s) + 1
    /\ \A m \in (i + 1)..(x - 1) : s[m] # NL
    /\ x <= Len(s) => s[x] = NL

\* x is the index behind a backslash at index i that starts neither a verbatim
\* command nor a marker, and behind the one character after it
EscapeEnds(s, i, x) ==
    /\ SubSeq(s, i + 1, CmdNameEnd(s, i + 1) - 1) \notin verbatimCmds
    /\ ~MatchEnv(s, i, BEGIN).ok
    /\ ~MatchEnv(s, i, END).ok
    /\ x = (IF i < Len(s) THEN i + 2 ELSE i + 1)

\* the text from index i up to x is one the scan does not read
Unread(s, i, x) ==
    \/ s[i] = BS /\ (VerbatimEnds(s, i, x) \/ EscapeEnds(s, i, x))
    \/ s[i] = "%" /\ CommentEnds(s, i, x)

\* C29: the argument in brackets and the argument in braces of \url, \href,
\* \code and \verb (to the end of the text when it is not closed), a comment
\* up to the end of its line, and the character behind a backslash are copied
\* as they stand, every "&" in them included, whatever the stack holds, and
\* the stack is left alone.
C29_UnreadTextCopied ==
    [][(AmpScanning /\ \E x \in 1..(Len(AmpBody(input)) + 1) :
                            Unread(AmpBody(input), amp.i, x)) =>
          /\ Unread(AmpBody(input), amp.i, amp'.i)
          /\ amp'.result = amp.result \o SubSeq(AmpBody(input), amp.i, amp'.i - 1)
          /\ amp'.envStack = amp.envStack]_vars

\* an "&" in the argument of \url that is never closed, read with the frame
\* "a" on the stack
C29_Witness ==
    /\ fn = "escapeTextAmpersands"
    /\ pc = "scan"
    /\ input = <<BS, "b", "e", "g", "i", "n", "{", "a", "}", BS, "u", "r", "l", "{", "&">>
    /\ amp.i = Len(input) + 1
    /\ amp.result = input
    /\ amp.envStack = << <<"a">> >>

----------------------------------------------------------------------------
(* Claims about what fixAIJsonEscaping changes *)

\* the characters that make the backslash before them an escape to keep
KeptLeads == {QUOTE, BS, "/", "f", "n", "r", "t", "u"}

\* the backslashes of s, from index i on, that get a backslash put before
\* them: those inside a string literal, not escaped, with no character of
\* KeptLeads behind them.  A quote opens or closes a literal when it is not
\* escaped; the character behind a kept backslash is escaped.
RECURSIVE BadBackslashes(_, _, _, _)
BadBackslashes(s, i, inLiteral, escaped) ==
    IF i > Len(s) THEN {}
    ELSE IF s[i] = QUOTE /\ ~escaped
    THEN BadBackslashes(s, i + 1, ~inLiteral, FALSE)
    ELSE IF inLiteral /\ s[i] = BS /\ ~escaped
    THEN IF i < Len(s) /\ s[i + 1] \in KeptLeads
         THEN BadBackslashes(s, i + 1, inLiteral, TRUE)
         ELSE {i} \cup BadBackslashes(s, i + 1, inLiteral, FALSE)
    ELSE BadBackslashes(s, i + 1, inLiteral, FALSE)

\* s with one backslash put before each character whose index is in at
WithBackslashBefore(s, at) ==
    Flatten([i \in 1..Len(s) |-> IF i \in at THEN <<BS, s[i]>> ELSE <<s[i]>>])

----------------------------------------------------------------------------
(* Claims about the order of the parses in extractJson *)

\* the candidate has been cut out: clean starts at the opening bracket
CandidateCut ==
    /\ fn = "extractJson"
    /\ pc \in {"parse", "retry", "returned", "thrown"}
    /\ clean # <<>>
    /\ clean[1] \in {"{", "["}

\* a step that applies fixAIJsonEscaping starts where the direct parse of
\* the candidate has failed
FixOnlyAfterFailure ==
    (fn = "extractJson" /\ (fixed' # fixed \/ pc' = "retry")) =>
        /\ pc = "parse"
        /\ ~JSONparse(clean).ok
        /\ fixed' = fixAIJsonEscaping(clean)

\* C31: extractJson applies fixAIJsonEscaping only in a step that follows a
\* failed direct parse of the candidate; when the candidate is valid JSON the
\* value returned is its direct parse, with every escape read as written,
\* and fixAIJsonEscaping has not been applied.
C31_FixOnlyAfterDirectParseFails ==
    /\ [][FixOnlyAfterFailure]_vars
    /\ []((CandidateCut /\ JSONparse(clean).ok) =>
            /\ pc \in {"parse", "returned"}
            /\ fixed = <<>>
            /\ pc = "returned" => value = JSONparse(clean).val)

\* a valid candidate that fixAIJsonEscaping would rewrite: \b is a legal
\* JSON escape that the valid list of fixAIJsonEscaping lacks
C31_Witness ==
    /\ fn = "extractJson"
    /\ pc = "returned"
    /\ input = ContentObject(<<BS, "b", "x">>)
    /\ clean = input
    /\ fixed = <<>>
    /\ JSONparse(clean).ok
    /\ value = JSONparse(clean).val
    /\ fixAIJsonEscaping(clean) # clean
    /\ JSONparse(fixAIJsonEscaping(clean)).val # value

----------------------------------------------------------------------------
(* extractJson with the loop of findBalancedJsonEnd stepped *)

\* number of fragments a text to locate a structure in is assembled from
MaxLocateFrags == 4

LocateFrags ==
    { <<"{">>,
      <<"}">>,
      <<"[">>,
      <<"]">>,
      <<QUOTE>>,
      <<BS>>,
      <<"x">> }

\* structures whose literals hold brackets, escaped quotes and backslashes
LocateCores ==
    JsonObjects \cup
    { <<"{", QUOTE, BS, QUOTE, "}", QUOTE, "}">>,
      <<"{", QUOTE, "a", BS, BS, QUOTE, "}">>,
      <<"[", QUOTE, "]", QUOTE, ",", "[", "1", "]", "]">>,
      <<"{", QUOTE, "a", QUOTE, ":", QUOTE, BS, BS, BS, QUOTE, "}", QUOTE>> }

\* texts of brackets, quotes and backslashes, and well-formed objects between
\* prose and fences
LocateInputs ==
    {Flatten(fs) : fs \in SeqsUpTo(LocateFrags, MaxLocateFrags)}
        \cup {b \o c \o a : b \in JsonBefore, c \in LocateCores, a \in JsonAfter}

InitLocate ==
    /\ ExtIdle
    /\ fn = "extractJson"
    /\ input \in LocateInputs
    /\ pc = "strip"
    /\ clean = <<>>
    /\ bal = BalInit
    /\ amp = AmpInit
    /\ CiteIdle
    /\ ret = <<>>

LocateFrame == <<fn, input, bal, amp, citeVars, ret, esc, patches, patchIdx, currentContent, log, calls, gen>>

\* 2. start = firstBrace or firstBracket; the call of findBalancedJsonEnd
LocateStart ==
    /\ fn = "extractJson"
    /\ pc = "locate"
    /\ FindStructure(clean).start # 0
    /\ jsonEnd' = EndInit(FindStructure(clean).start)
    /\ pc' = "scan"
    /\ UNCHANGED <<LocateFrame, clean, fixed, value, error>>

\* one pass of the loop of findBalancedJsonEnd over clean
LocateScan ==
    /\ fn = "extractJson"
    /\ pc = "scan"
    /\ jsonEnd.found = 0
    /\ jsonEnd.i <= Len(clean)
    /\ LET start == FindStructure(clean).start
       IN  jsonEnd' = EndIter(clean, jsonEnd, clean[start], closeOf(clean[start]))
    /\ UNCHANGED <<LocateFrame, pc, clean, fixed, value, error>>

\* findBalancedJsonEnd has returned the index or -1: cut the candidate out
LocateCut ==
    /\ fn = "extractJson"
    /\ pc = "scan"
    /\ jsonEnd.found # 0 \/ jsonEnd.i > Len(clean)
    /\ clean' = Candidate(clean, [start |-> FindStructure(clean).start, end |-> jsonEnd.found])
    /\ pc' = "parse"
    /\ UNCHANGED <<LocateFrame, jsonEnd, fixed, value, error>>

NextLocate ==
    \/ JsonStrip \/ JsonNoStructure
    \/ LocateStart \/ LocateScan \/ LocateCut
    \/ JsonDirect \/ JsonCatch \/ JsonRetry

SpecLocate == InitLocate /\ [][NextLocate]_vars

----------------------------------------------------------------------------
(* Claims about findBalancedJsonEnd *)

\* the length of the run of backslashes that ends at index i, none of them
\* before index lo
RECURSIVE BackslashRun(_, _, _)
BackslashRun(text, i, lo) ==
    IF i < lo THEN 0
    ELSE IF text[i] # BS THEN 0
    ELSE 1 + BackslashRun(text, i - 1, lo)

\* the index of the quote that opened the string literal still open behind
\* index i, for a reading that starts at index start; 0 when none is open.
\* A quote inside a literal ends it unless an odd number of backslashes of the
\* literal stands directly before it.
RECURSIVE OpenLiteral(_, _, _)
OpenLiteral(text, start, i) ==
    IF i < start THEN 0
    ELSE LET behind(before) ==
                 IF text[i] # QUOTE THEN before
                 ELSE IF before = 0 THEN i
                 ELSE IF BackslashRun(text, i - 1, before + 1) % 2 = 0 THEN 0
                 ELSE before
         IN  behind(OpenLiteral(text, start, i - 1))

\* the indices from start to i that hold the character c outside a literal
CountedAt(text, start, i, c) ==
    {j \in start..i : text[j] = c /\ OpenLiteral(text, start, j) = 0}

\* opening brackets minus closing brackets of the pair, literals left out
PairDepth(text, start, i, openChar, closeChar) ==
    Cardinality(CountedAt(text, start, i, openChar))
        - Cardinality(CountedAt(text, start, i, closeChar))

\* the first index at which the depth of the pair is back at zero; 0 when the
\* text ends first
MatchingEnd(text, start, openChar, closeChar) ==
    LET ends == {i \in CountedAt(text, start, Len(text), closeChar) :
                     PairDepth(text, start, i, openChar, closeChar) = 0}
    IN  IF ends = {} THEN 0 ELSE CHOOSE i \in ends : \A j \in ends : i <= j

\* findBalancedJsonEnd has returned
EndReturned == fn = "extractJson" /\ pc = "scan" /\ (jsonEnd.found # 0 \/ jsonEnd.i > Len(clean))

\* the candidate has been cut out of the stripped text
CutDone ==
    /\ fn = "extractJson"
    /\ pc \in {"parse", "retry", "returned", "thrown"}
    /\ FindStructure(StripFences(input)).start # 0

\* C32: started at the opening bracket, findBalancedJsonEnd returns the first
\* index at which the depth of the pair is back at zero, brackets inside
\* string literals and brackets of the other kind not counted, an escaped
\* quote not ending a literal; it returns -1 (0 here) exactly when the text
\* ends first, and extractJson then takes the text from the start index to
\* its end as the candidate.
C32_BalancedEndOrTruncated ==
    LET text == StripFences(input)
        start == FindStructure(text).start
        end == MatchingEnd(text, start, text[start], closeOf(text[start]))
    IN  /\ EndReturned => jsonEnd.found = end
        /\ CutDone => clean = IF end = 0 THEN SubSeq(text, start, Len(text))
                              ELSE SubSeq(text, start, end)

\* a closing brace inside a literal behind an escaped quote is passed over
C32_Witness ==
    /\ EndReturned
    /\ clean = <<"{", QUOTE, BS, QUOTE, "}", QUOTE, "}">>
    /\ jsonEnd.found = 7

\* the text ends first: the candidate runs to the end of the text
C32_WitnessTruncated ==
    /\ fn = "extractJson"
    /\ pc = "parse"
    /\ input = <<"x", "{", "[">>
    /\ jsonEnd.found = 0
    /\ clean = <<"{", "[">>

----------------------------------------------------------------------------
(* Runs of compileCitations over runs of adjacent citation commands *)

\* number of fragments a text with citation commands is assembled from
MaxMergeFrags == 3

CITEA == CITE \o <<"a", "}">>
CITEB == CITE \o <<"b", "}">>

MergeFrags == { CITEA, CITEB, <<" ">>, <<NL>>, <<"x">>, <<"}">> }

\* n commands \cite{a}, one directly behind the other
RECURSIVE Chain(_)
Chain(n) ==
    IF n = 0 THEN <<>>
    ELSE IF n = 1 THEN CITEA
    ELSE Chain(n \div 2) \o Chain(n - (n \div 2))

\* how many commands stand in a row: a few, as many as ten halvings bring
\* down to one, and one more
ChainLengths == {4, 5, 1024, 1025}

MergeInputs ==
    {Flatten(fs) : fs \in SeqsUpTo(MergeFrags, MaxMergeFrags)}
        \cup {Chain(n) : n \in ChainLengths}

InitMerge ==
    /\ ExtIdle
    /\ fn = "compileCitations"
    /\ input \in MergeInputs
    /\ references \in { {}, {<<"a">>} }
    /\ pc = "resolve"
    /\ res = [i |-> 1, out |-> <<>>]
    /\ compiled = <<>>
    /\ prev = <<>>
    /\ loopCount = 0
    /\ bal = BalInit
    /\ amp = AmpInit
    /\ clean = <<>>
    /\ ret = <<>>

\* step 2, the whole of text.replace(marker, callback)
MergeResolve ==
    /\ fn = "compileCitations"
    /\ pc = "resolve"
    /\ res' = ResolveRun(input, res, references)
    /\ compiled' = res'.out
    /\ pc' = "merge"
    /\ UNCHANGED <<extVars, fn, input, bal, amp, clean, references, prev, loopCount, ret>>

NextMerge ==
    MergeResolve \/ CiteMerge \/ CiteRepair \/ CiteSweep

SpecMerge == InitMerge /\ [][NextMerge]_vars

----------------------------------------------------------------------------
(* Claims about the merge loop *)

\* the do-while loop has been left and step 4 has not run yet
MergeStopped == fn = "compileCitations" /\ pc = "repair"

\* \cite{ with a key list and its closing brace at index i: the index behind
\* the command, 0 when there is none
CiteEnd(s, i) ==
    IF ~HasPrefixAt(s, i, CITE) THEN 0
    ELSE LET closers == {k \in (i + Len(CITE) + 1)..Len(s) : s[k] = "}"}
         IN  IF i + Len(CITE) <= Len(s) /\ s[i + Len(CITE)] # "}" /\ closers # {}
             THEN (CHOOSE k \in closers : \A j \in closers : k <= j) + 1
             ELSE 0

\* two citation commands with nothing but whitespace between them
AdjacentCites(s) ==
    \E i \in 1..Len(s) :
        /\ CiteEnd(s, i) # 0
        /\ \E j \in CiteEnd(s, i)..Len(s) :
               /\ \A k \in CiteEnd(s, i)..(j - 1) : IsSpace(s[k])
               /\ CiteEnd(s, j) # 0

\* C33 (first half): the merge loop makes ten passes at most
MergePassesBounded ==
    fn = "compileCitations" => loopCount <= 10

\* C33: the merge loop stops after at most 10 passes, and when it stops no
\* two \cite commands separated only by whitespace are left, however many
\* stood in a row.
C33_MergeReachesFixpoint ==
    /\ MergePassesBounded
    /\ MergeStopped => ~AdjacentCites(compiled)

----------------------------------------------------------------------------
(* Runs of sanitizeLatexOutput over texts with math spans *)

\* number of fragments a text with math spans is assembled from
MaxThetaFrags == 4

THETA == <<BS, "t", "h", "e", "t", "a">>

ThetaFrags == { THETA, <<"$">>, <<"x">>, <<" ">> }

ThetaInputs == {Flatten(fs) : fs \in SeqsUpTo(ThetaFrags, MaxThetaFrags)}

InitTheta ==
    /\ ExtIdle
    /\ fn = "sanitizeLatexOutput"
    /\ input \in ThetaInputs
    /\ pc = "first"
    /\ clean = <<>>
    /\ bal = BalInit
    /\ amp = AmpInit
    /\ CiteIdle
    /\ ret = <<>>

SpecTheta == InitTheta /\ [][NextSanitize]_vars

----------------------------------------------------------------------------
(* Claims about \theta and math spans *)

\* the first call has returned: clean holds what it returned
SanReturned == fn = "sanitizeLatexOutput" /\ pc \in {"again", "done"}

\* the indices at which s holds \theta
ThetaAt(s) == {i \in 1..Len(s) : HasPrefixAt(s, i, THETA)}

\* the index i lies inside a $...$ span: an odd number of '$' stands before
\* it and the span is closed behind it
InMathSpan(s, i) ==
    /\ Cardinality({k \in 1..(i - 1) : s[k] = "$"}) % 2 = 1
    /\ \E k \in (i + 1)..Len(s) : s[k] = "$"

\* C34: a \theta inside a $...$ span is left as it is, wherever in the span it
\* stands: a text whose \theta commands are all inside math spans comes back
\* unchanged.
C34_ThetaInMathUntouched ==
    (SanReturned /\ \A i \in ThetaAt(input) : InMathSpan(input, i)) => clean = input

\* the same for the texts whose \theta commands all stand directly behind the
\* '$' that opens their span
ThetaBehindOpenerUntouched ==
    (SanReturned /\ \A i \in ThetaAt(input) : InMathSpan(input, i) /\ input[i - 1] = "$")
        => clean = input

----------------------------------------------------------------------------
(* Claims about what fixLatexBalance adds to its text *)

\* a sequence of \end{name} markers, and nothing else
RECURSIVE IsEndMarkers(_)
IsEndMarkers(mid) ==
    \/ mid = <<>>
    \/ /\ HasPrefixAt(mid, 1, END \o <<"{">>)
       /\ LET k == FindChar(mid, Len(END) + 2, "}")
          IN  /\ k > Len(END) + 2
              /\ IsEndMarkers(SubSeq(mid, k + 1, Len(mid)))

\* closing braces, then \end{name} markers: what the function writes of its
\* own
IsInserted(mid) == IsEndMarkers(SubSeq(mid, FirstNotIn(mid, 1, {"}"}), Len(mid)))

\* grown is old, then inserted text, then span
GrowsBy(old, grown, span) ==
    LET n == Len(grown) - Len(span)
    IN  /\ n >= Len(old)
        /\ SubSeq(grown, 1, Len(old)) = old
        /\ SubSeq(grown, n + 1, Len(grown)) = span
        /\ IsInserted(SubSeq(grown, Len(old) + 1, n))

\* a pass of the loop moves forward over a span of the input and appends
\* that span, with nothing but inserted text before it; the return appends
\* inserted text only
InsertOnlyStep ==
    /\ BalReading =>
           /\ bal'.i > bal.i
           /\ GrowsBy(bal.result, bal'.result, SubSeq(input, bal.i, bal'.i - 1))
    /\ (fn = "fixLatexBalance" /\ pc = "scan" /\ pc' = "done") =>
           /\ bal.i = Len(input) + 1
           /\ GrowsBy(bal.result, ret', <<>>)

\* s can be had from t by deleting characters of t
RECURSIVE SubsequenceFrom(_, _, _, _)
SubsequenceFrom(s, i, t, j) ==
    IF i > Len(s) THEN TRUE
    ELSE IF j > Len(t) THEN FALSE
    ELSE IF s[i] = t[j] THEN SubsequenceFrom(s, i + 1, t, j + 1)
    ELSE SubsequenceFrom(s, i, t, j + 1)

\* C35: fixLatexBalance only inserts text.  Every step of the scan copies the
\* span of the input it moves over, in order, and writes before it nothing but
\* closing braces and \end{...} markers of its own, and the return adds
\* nothing else: with the inserted braces and markers deleted the result is
\* the input, no character removed, altered or reordered.
C35_OnlyInserts ==
    /\ [][InsertOnlyStep]_vars
    /\ [](BalDone => /\ Len(ret) >= Len(input)
                     /\ SubsequenceFrom(input, 1, ret, 1))

\* braces and a marker inserted before a copied \end{a}, and a marker at the
\* return
C35_Witness ==
    /\ BalDone
    /\ input = <<BS, "b", "e", "g", "i", "n", "{", "a", "}", BS, "b", "e", "g", "i", "n", "{", "b", "}", "{", BS, "e", "n", "d", "{", "a", "}">>
    /\ ret = <<BS, "b", "e", "g", "i", "n", "{", "a", "}", BS, "b", "e", "g", "i", "n", "{", "b", "}", "{", "}", BS, "e", "n", "d", "{", "b", "}", BS, "e", "n", "d", "{", "a", "}">>

----------------------------------------------------------------------------
(* Claims about texts that are balanced already *)

\* the text from index i on closes the open groups of stack, innermost first,
\* and leaves none open: '{' opens a group that a '}' closes, \begin{N} one
\* that \end{N} closes.  With flat set, no environment is closed inside a
\* brace group.  A text with a comment or a backslash that starts no marker is
\* not taken for nested here.
RECURSIVE NestedFrom(_, _, _, _)
NestedFrom(s, i, stack, flat) ==
    IF i > Len(s) THEN stack = <<>>
    ELSE IF s[i] = "{" THEN NestedFrom(s, i + 1, Append(stack, <<"{">>), flat)
    ELSE IF s[i] = "}"
    THEN /\ stack # <<>>
         /\ Last(stack) = <<"{">>
         /\ NestedFrom(s, i + 1, Front(stack), flat)
    ELSE IF s[i] = "%" THEN FALSE
    ELSE IF s[i] = BS
    THEN IF MatchEnv(s, i, BEGIN).ok
         THEN NestedFrom(s, i + MatchEnv(s, i, BEGIN).len,
                         Append(stack, MatchEnv(s, i, BEGIN).name), flat)
         ELSE IF MatchEnv(s, i, END).ok
         THEN /\ stack # <<>>
              /\ Last(stack) = MatchEnv(s, i, END).name
              /\ flat => \A k \in 1..Len(stack) : stack[k] # <<"{">>
              /\ NestedFrom(s, i + MatchEnv(s, i, END).len, Front(stack), flat)
         ELSE FALSE
    ELSE NestedFrom(s, i + 1, stack, flat)

ProperlyNested(s) == NestedFrom(s, 1, <<>>, FALSE)

\* C36: a text whose braces and environments are properly nested already, a
\* brace group around a whole environment included, is returned unchanged.
C36_NestedUnchanged ==
    (BalDone /\ ProperlyNested(input)) => ret = input

\* the same for the nested texts with no environment closed inside a brace
\* group
NestedOutsideBracesUnchanged ==
    (BalDone /\ NestedFrom(input, 1, <<>>, TRUE)) => ret = input

----------------------------------------------------------------------------
(* escapeTextAmpersands run on its own result *)

\* a second call, on what the first returned
AmpAgain ==
    /\ fn = "escapeTextAmpersands"
    /\ pc = "done"
    /\ clean' = escapeTextAmpersands(ret)
    /\ pc' = "again"
    /\ UNCHANGED <<extVars, fn, input, bal, amp, citeVars, ret>>

NextAmpTwice == AmpScan \/ AmpReturn \/ AmpAgain

SpecAmpTwice == InitAmp /\ [][NextAmpTwice]_vars

----------------------------------------------------------------------------
(* Claims about a second run of escapeTextAmpersands *)

AmpAgainDone == fn = "escapeTextAmpersands" /\ pc = "again"

\* the '&' of s that the first call wrote a backslash before, or found one
\* before: the indices of '&' with a backslash directly before them
EscapedAmpersands(s) == {i \in 2..Len(s) : s[i] = "&" /\ s[i - 1] = BS}

\* C37: escapeTextAmpersands is idempotent: the second call returns what the
\* first returned, so no '&' written as '\&' gets another backslash.
C37_Idempotent == AmpAgainDone => clean = ret

\* an '&' escaped by the first call and one that came escaped, both kept by
\* the second
C37_Witness ==
    /\ AmpAgainDone
    /\ input = <<BS, "&", "&">>
    /\ ret = <<BS, "&", BS, "&">>
    /\ clean = ret
    /\ EscapedAmpersands(ret) = {2, 4}

----------------------------------------------------------------------------
(* Claims about the text a patch puts in *)

\* the text handed to replace for the patch in turn: cleanNew on an exact
\* match, patch.new on a fuzzy one
ReplacementText ==
    IF Occurrences(currentContent, patches[patchIdx].original) # {}
    THEN sanitizeLatexOutput(patches[patchIdx].new)
    ELSE patches[patchIdx].new

\* C38: a step that applies a patch leaves the document with the matched span
\* replaced by the replacement text, character for character: '$$', '$&' or
\* '$1' in it are not read as patterns.
C38_ReplacementTakenLiterally ==
    [][ (PatchInTurn /\ TargetSpan(currentContent, patches[patchIdx].original).found)
            => LET span == TargetSpan(currentContent, patches[patchIdx].original)
               IN  currentContent' =
                       SubSeq(currentContent, 1, span.from - 1)
                       \o ReplacementText
                       \o SubSeq(currentContent, span.to + 1, Len(currentContent)) ]_vars

\* the same for the replacement texts with no '$' in them
DollarFreeReplacementLiteral ==
    [][ (/\ PatchInTurn
         /\ TargetSpan(currentContent, patches[patchIdx].original).found
         /\ \A k \in 1..Len(ReplacementText) : ReplacementText[k] # "$")
            => LET span == TargetSpan(currentContent, patches[patchIdx].original)
               IN  currentContent' =
                       SubSeq(currentContent, 1, span.from - 1)
                       \o ReplacementText
                       \o SubSeq(currentContent, span.to + 1, Len(currentContent)) ]_vars

----------------------------------------------------------------------------
(* generateLatex stepped: the head of the document, every section, the
   enhancements left over, the bibliography, the footer *)

\* number of fragments a text of the analysis is assembled from
MaxDocFrags == 2

DocFrags ==
    { <<"(", "r", "e", "f", "_", "1", ")">>,
      <<BS, "c", "i", "t", "e", "{", "r", "e", "f", "_", "1", ",", " ", "r", "e", "f", "_", "2", " ", "}">>,
      <<BS, "c", "i", "t", "e", "{", "r", "e", "f", "_", "9", "}">>,
      <<BS, "c", "i", "t", "e", "{", "r", "e", "f", "_", "1">>,
      <<"}">>,
      <<BS, "s", "e", "c", "t", "i", "o", "n", "{", "s", "}">>,
      <<BS, "b", "e", "g", "i", "n", "{", "t", "a", "b", "l", "e", "}", "[", "t", "]">> }

DOCREF1 == [key |-> <<"r", "e", "f", "_", "1">>, author |-> <<"A">>, title |-> <<"T", "&">>,
         venue |-> <<"V">>, year |-> <<"2", "0", "2", "0">>, url |-> <<>>]
DOCREF2 == [key |-> <<"r", "e", "f", "_", "2">>, author |-> <<"B">>, title |-> <<"U">>,
         venue |-> <<"W">>, year |-> <<"2", "0", "2", "1">>, url |-> <<"u">>]

ENH1 == [id |-> <<"e", "1">>, title |-> <<"E">>, description |-> <<"d">>,
         content |-> <<"c">>, location |-> <<"m", "e", "t", "h", "o", "d">>, enabled |-> TRUE]

\* a paper of one section with an enhancement placed in it, and two references
PaperPlaced ==
    [analysis |-> [title |-> <<"P">>, abstract |-> <<"a">>,
                   sections |-> << [name |-> <<"I", "I", ".", " ", "M", "e", "t", "h", "o", "d">>,
                                    content |-> <<"C", "O", "N", "T", "E", "N", "T", ":", " ", "s">>] >>,
                   references |-> <<DOCREF1, DOCREF2>>],
     enhancements |-> <<ENH1>>,
     authorName |-> <<"N">>, authorAffiliation |-> <<"U">>,
     writerModel |-> <<"w">>, strategistModel |-> <<>>, librarianModel |-> <<>>]

\* a paper of two sections, one of them without content, with an enhancement
\* of no section, one that names a TikZ library, one listed twice, one
\* switched off and one without title
PaperUnmatched ==
    [PaperPlaced EXCEPT
        !.analysis.sections =
            << [name |-> <<"I", "n", "t", "r", "o">>, content |-> <<>>],
               [name |-> <<"I", "I", ".", " ", "M", "e", "t", "h", "o", "d">>, content |-> <<"s", "U+4E2D">>] >>,
        !.enhancements =
            << [ENH1 EXCEPT !.location = <<"r", "e", "s", "u", "l", "t", "s">>],
               [ENH1 EXCEPT !.id = <<"e", "5">>, !.location = <<"r", "e", "s", "u", "l", "t", "s">>,
                            !.content = <<"c", BS, "u", "s", "e", "t", "i", "k", "z", "l", "i", "b", "r", "a", "r", "y", "{", "f", "i", "t", "}">>],
               [ENH1 EXCEPT !.id = <<"e", "2">>, !.location = <<"m">>],
               [ENH1 EXCEPT !.id = <<"e", "2">>, !.location = <<"m">>],
               [ENH1 EXCEPT !.id = <<"e", "3">>, !.enabled = FALSE],
               [ENH1 EXCEPT !.id = <<"e", "4">>, !.title = <<>>] >>,
        !.authorName = <<>>, !.authorAffiliation = <<>>]

\* a paper without title, abstract, sections and enhancements
PaperEmpty ==
    [PaperPlaced EXCEPT
        !.analysis.title = <<>>, !.analysis.abstract = <<>>,
        !.analysis.sections = <<>>, !.enhancements = <<>>]

\* the paper with the text t in one of its fields
DocInputsOf(paper, t) ==
    {[paper EXCEPT !.analysis.abstract = t]}
        \cup {[paper EXCEPT !.analysis.sections[k].content = t] :
                 k \in 1..Len(paper.analysis.sections)}
        \cup {[paper EXCEPT !.enhancements[1].description = t] :
                 k \in 1..(IF paper.enhancements = <<>> THEN 0 ELSE 1)}
        \cup {[paper EXCEPT !.enhancements[1].content = t] :
                 k \in 1..(IF paper.enhancements = <<>> THEN 0 ELSE 1)}

\* the papers, with two references, with none, and with a reference whose
\* author is missing
DocPapers ==
    { PaperPlaced,
      PaperUnmatched,
      [PaperUnmatched EXCEPT !.analysis.references = <<>>],
      [PaperEmpty EXCEPT !.analysis.references = <<>>],
      [PaperEmpty EXCEPT !.analysis.references =
                             <<[DOCREF1 EXCEPT !.author = UNDEFINED]>>] }

InitDoc ==
    /\ ExtIdle
    /\ fn = "generateLatex"
    /\ \E paper \in DocPapers, fs \in SeqsUpTo(DocFrags, MaxDocFrags) :
           input \in DocInputsOf(paper, Flatten(fs))
    /\ pc = "start"
    /\ clean = <<>>
    /\ bal = BalInit
    /\ amp = AmpInit
    /\ CiteIdle
    /\ ret = <<>>

DocFrame ==
    <<fn, bal, amp, citeVars, clean, esc, fixed, value, error, patches, patchIdx,
      currentContent, log, calls, jsonEnd>>

\* the defaults, the TikZ libraries, the abstract, the head of the document,
\* the default section
GenStart ==
    /\ fn = "generateLatex"
    /\ pc = "start"
    /\ LET analysis == input.analysis
           isEnabled(e) == e.enabled
           enabled == SelectSeq(input.enhancements, isEnabled)
           titleText == IF analysis.title = <<>> THEN <<"U", "n", "t", "i", "t", "l", "e", "d", " ", "A", "c", "a", "d", "e", "m", "i", "c", " ", "P", "a", "p", "e", "r">>
                        ELSE analysis.title
           abstractText == IF analysis.abstract = <<>> THEN <<"A", "b", "s", "t", "r", "a", "c", "t", " ", "n", "o", "t", " ", "p", "r", "o", "v", "i", "d", "e", "d", ".">>
                           ELSE analysis.abstract
           title == escapeLatex(titleText)
           head(tikz, abstract, hasCJK) ==
               [latex |-> Preamble(IF hasCJK THEN <<BS, "u", "s", "e", "p", "a", "c", "k", "a", "g", "e", "{", "C", "J", "K", "u", "t", "f", "8", "}">> ELSE <<>>,
                                   JoinLibraries(tikz.globalLibraries),
                                   title,
                                   formatAuthorInfo(input.authorName,
                                                    input.authorAffiliation),
                                   IF hasCJK THEN <<BS, "b", "e", "g", "i", "n", "{", "C", "J", "K", "*", "}", "{", "U", "T", "F", "8", "}", "{", "m", "i", "n", "}">> ELSE <<>>,
                                   abstract),
                processedEnhancements |-> tikz.cleanedEnhancements,
                idx |-> 1,
                placedEnhancementIds |-> {},
                compiledTexts |-> <<abstract>>,
                hasCJK |-> hasCJK]
       IN  /\ gen' = head(sanitizeTikzLibraries(enabled),
                          compileCitations(abstractText, KeysOf(analysis.references)),
                          TestCJK(JoinContents(analysis.sections)) \/ TestCJK(abstractText))
           /\ input' = [input EXCEPT
                           !.analysis.title = titleText,
                           !.analysis.abstract = abstractText,
                           !.analysis.sections =
                               IF analysis.sections = <<>> THEN defaultSections
                               ELSE analysis.sections]
    /\ pc' = "sections"
    /\ UNCHANGED <<DocFrame, ret>>

\* one turn of the loop over analysis.sections; name and content being texts,
\* nothing in the turn throws and its catch is not entered
GenSection ==
    /\ fn = "generateLatex"
    /\ pc = "sections"
    /\ gen.idx <= Len(input.analysis.sections)
    /\ LET sec == input.analysis.sections[gen.idx]
           refs == input.analysis.references
           secName == escapeLatex(sec.name)
           inSection(e) == PlacedIn(e, sec)
           secEnhs == SelectSeq(gen.processedEnhancements, inSection)
           closed(placed, secContent) ==
               [gen EXCEPT
                   !.idx = gen.idx + 1,
                   !.latex = placed.latex \o secContent \o <<NL, NL>>,
                   !.placedEnhancementIds = placed.placedEnhancementIds,
                   !.compiledTexts = placed.compiledTexts]
           body(secContent) ==
               closed(PlaceEnhancements(secEnhs, refs,
                          [latex |-> gen.latex \o SECTION \o secName \o <<"}", NL, NL>>,
                           placedEnhancementIds |-> gen.placedEnhancementIds,
                           compiledTexts |-> Append(gen.compiledTexts, secContent)]),
                      secContent)
       IN  gen' = IF sec.name = <<>> \/ sec.content = <<>>
                  THEN [gen EXCEPT !.idx = gen.idx + 1]
                  ELSE body(StripResidue(compileCitations(sec.content, KeysOf(refs))))
    /\ UNCHANGED <<DocFrame, input, pc, ret>>

\* the enhancements no section took
GenUnmatched ==
    /\ fn = "generateLatex"
    /\ pc = "sections"
    /\ gen.idx > Len(input.analysis.sections)
    /\ LET leftOver(e) == e.id # <<>> /\ e.id \notin gen.placedEnhancementIds
           unmatched == SelectSeq(gen.processedEnhancements, leftOver)
           st == [latex |-> gen.latex \o <<NL, "%", " ", "-", "-", "-", " ", "A", "d", "d", "i", "t", "i", "o", "n", "a", "l", " ", "E", "n", "h", "a", "n", "c", "e", "m", "e", "n", "t", "s", " ", "-", "-", "-", NL>>,
                  compiledTexts |-> gen.compiledTexts]
           with(done) == [gen EXCEPT !.latex = done.latex,
                                     !.compiledTexts = done.compiledTexts]
       IN  gen' = IF unmatched = <<>> THEN gen
                  ELSE with(AppendUnmatched(unmatched, input.analysis.references, st))
    /\ pc' = "bibliography"
    /\ UNCHANGED <<DocFrame, input, ret>>

\* the bibliography of references that all have author, title and venue
GenBibliography ==
    /\ fn = "generateLatex"
    /\ pc = "bibliography"
    /\ LET refs == input.analysis.references
       IN  /\ \A k \in 1..Len(refs) : ~Throws(refs[k])
           /\ gen' = [gen EXCEPT !.latex = gen.latex \o Bibliography(refs)]
    /\ pc' = "footer"
    /\ UNCHANGED <<DocFrame, input, ret>>

\* the outer catch: a reference without author, title or venue
GenCriticalError ==
    /\ fn = "generateLatex"
    /\ pc = "bibliography"
    /\ \E k \in 1..Len(input.analysis.references) : Throws(input.analysis.references[k])
    /\ ret' = ErrorDocument
    /\ pc' = "done"
    /\ UNCHANGED <<DocFrame, input, gen>>

\* the footer and the end of the document
GenFooter ==
    /\ fn = "generateLatex"
    /\ pc = "footer"
    /\ LET cjkEnd == IF gen.hasCJK THEN <<BS, "e", "n", "d", "{", "C", "J", "K", "*", "}">> ELSE <<>>
       IN  ret' = gen.latex
                     \o Footer(input.strategistModel, input.writerModel,
                               input.librarianModel)
                     \o cjkEnd \o <<NL, BS, "e", "n", "d", "{", "d", "o", "c", "u", "m", "e", "n", "t", "}", NL>>
    /\ pc' = "done"
    /\ UNCHANGED <<DocFrame, input, gen>>

NextDoc ==
    \/ GenStart
    \/ GenSection
    \/ GenUnmatched
    \/ GenBibliography
    \/ GenCriticalError
    \/ GenFooter

SpecDoc == InitDoc /\ [][NextDoc]_vars

----------------------------------------------------------------------------
(* Claims about the citations of the generated document *)

GenDone == fn = "generateLatex" /\ pc = "done"

\* the indexes of text at which a command \cite{...} with a key list starts
CiteStarts(text) ==
    {i \in 1..Len(text) :
        /\ text[i] = BS
        /\ HasPrefixAt(text, i, CITE)
        /\ FirstIn(text, i + Len(CITE), {"}"}) <= Len(text)
        /\ FirstIn(text, i + Len(CITE), {"}"}) > i + Len(CITE)}

\* the keys the commands \cite{...} of text list, each without the white
\* space around it
CitedKeys(text) ==
    UNION {LET keys == KeyList(SubSeq(text, i + Len(CITE),
                                      FirstIn(text, i + Len(CITE), {"}"}) - 1))
           IN  {keys[k] : k \in 1..Len(keys)} : i \in CiteStarts(text)}

\* the keys of the \bibitem{...} entries of a document
BibKeys(doc) ==
    {SubSeq(doc, i + Len(BIBITEM), FirstIn(doc, i + Len(BIBITEM), {"}"}) - 1) :
        i \in {j \in 1..Len(doc) :
                  /\ doc[j] = BS
                  /\ HasPrefixAt(doc, j, BIBITEM)
                  /\ FirstIn(doc, j + Len(BIBITEM), {"}"}) <= Len(doc)}}

\* C39: in the document generateLatex returns, every key listed in a
\* \cite{...} command of a text that compileCitations produced for the
\* abstract, a section or an enhancement and that the document holds is the
\* key of a \bibitem of the document
C39_CitedKeysInBibliography ==
    GenDone =>
        LET bibliography == BibKeys(ret)
        IN  \A k \in 1..Len(gen.compiledTexts) :
                Includes(ret, gen.compiledTexts[k]) =>
                    CitedKeys(gen.compiledTexts[k]) \subseteq bibliography

\* a document of two references whose abstract, section or enhancement cites
\* both of them in one command
C39_Witness ==
    /\ GenDone
    /\ input.analysis.references = <<DOCREF1, DOCREF2>>
    /\ \E k \in 1..Len(gen.compiledTexts) :
           /\ gen.compiledTexts[k] = <<BS, "c", "i", "t", "e", "{", "r", "e", "f", "_", "1", ",", " ", "r", "e", "f", "_", "2", " ", "}">>
           /\ Includes(ret, gen.compiledTexts[k])
    /\ BibKeys(ret) = {<<"r", "e", "f", "_", "1">>, <<"r", "e", "f", "_", "2">>}

\* a document that was generated holds every text that was compiled for it
\* but the contents that a later step shortened
CompiledTextsInDocument ==
    (GenDone /\ ret # ErrorDocument) =>
        \A k \in 1..Len(gen.compiledTexts) : Includes(ret, gen.compiledTexts[k])

\* the document of the outer catch holds no citation at all
ErrorDocumentCitesNothing ==
    (GenDone /\ ret = ErrorDocument) => CiteStarts(ret) = {}

====
